---- MODULE Spec2Model ----
(***************************************************************************)
(* NoNameDB (lstore): the lock manager, the two-phase-locked transaction   *)
(* runner, the transaction worker and the part of the table they act on.   *)
(*                                                                         *)
(* Spec      the lock manager driven by arbitrary acquire_lock,            *)
(*           release_lock and release_all_locks calls.                     *)
(* SpecTxn   transaction workers running transactions against one table.   *)
(* SpecPool  the buffer pool driven by arbitrary calls of its methods.      *)
(* SpecTable one client inserting, updating and reading the rows of a      *)
(*           table whose pages, directory and index are kept in full.      *)
(* SpecDelete the same client also deleting rows, reading through any      *)
(*           column and inserting a key again.                             *)
(* SpecMerge the same client also running Table.merge.                     *)
(* SpecVersions a client taking snapshots around the changes of one row.    *)
(* SpecReindex a client creating indexes on the columns of a filled table.  *)
(* SpecIndex create_index and drop_index calls on the columns of a table.  *)
(* SpecPage  writes into one page until it is full.                        *)
(* SpecInsert two threads, each running a transaction that inserts a row   *)
(*           with the same primary key, a step for every column written.   *)
(* SpecWalk  one call of Table.read_value on any directory and INDIRECTION *)
(*           content, a step for every turn of its loop.                   *)
(***************************************************************************)
EXTENDS Integers, Sequences, FiniteSets, TLC

\* ------------------------------------------------------------------ bounds
\* rows of the table have the primary keys 1..NumKeys
NumKeys == 2
\* transaction ids used by the free lock-manager calls of Spec
NumTxnIds == 3

\* transaction workers (threads) of SpecTxn
NumWorkers == 2
\* shared-lock selects between the two updates of a deadlock-tester transaction
NumSelects == 1
\* page numbers a buffer-pool client asks for: 1..NumPages
NumPages == 2
\* the buffer pool is given a pool_size in 1..MaxPoolSize
MaxPoolSize == 2
\* a page is pinned at most MaxPins times at once
MaxPins == 2
\* the inserts and updates of SpecTable give a column a value in 1..NumValues
NumValues == 2
\* the rows of the table in full receive at most MaxUpdates updates
MaxUpdates == 2
\* select_version is asked for the versions -MaxVersion..MaxVersion
MaxVersion == 1

\* --------------------------------------------------------------- constants
\* TransactionWorker.__run: max_retries
max_retries == 3
\* Table.metadata_columns
metadata_columns == 4
\* config.INDIRECTION_COLUMN
INDIRECTION_COLUMN == 0
\* base pages per column, Table.__init__: last_page_number = total_columns * 16 + total_columns
base_pages == 16
\* Python's None (no stored value is negative)
None == -1
\* Table.make_ver_copy: the snapshots kept
max_versions == 10
\* the snapshots a client of SpecVersions takes
MaxCopies == 12
\* the record-ids of the directory Table.read_value walks in SpecWalk: 1..MaxChain
MaxChain == 3
\* config.SCHEMA_ENCODING_COLUMN
SCHEMA_ENCODING_COLUMN == 3
\* config.RECORDS_PER_PAGE = PAGE_SIZE // RECORD_SIZE
PAGE_SIZE == 4096
RECORD_SIZE == 8
RECORDS_PER_PAGE == PAGE_SIZE \div RECORD_SIZE
\* LockType.SHARED / LockType.EXCLUSIVE
SHARED == 0
EXCLUSIVE == 1

TableName == "T"
Rids == 1..NumKeys
TxnIds == 1..NumTxnIds
LockKeys == {<<TableName, r>> : r \in Rids}
LockTypes == {SHARED, EXCLUSIVE}
Workers == 1..NumWorkers

VARIABLES
  lock_dict,        \* LockManager._lock_dict: (table, rid) -> (transaction_id -> LockType)
  last_call,        \* the last free lock-manager call and what it returned (history)
  scn,              \* the workload: which transactions the workers were given
  page_directory,   \* Table.page_directory: column -> record-ids that have an entry
  indices,          \* Index.indices: user column -> (record-id -> value)
  pc,               \* worker -> where its thread is
  ti,               \* worker -> position in self.transactions
  qi,               \* worker -> position in Transaction.queries of the running transaction
  retries,          \* worker -> retries of the running transaction
  stats,            \* worker -> TransactionWorker.stats
  result,           \* worker -> TransactionWorker.result
  ret,              \* worker -> what the last Transaction.run returned
  acquired_locks,   \* worker -> Transaction.acquired_locks of the running transaction
  modified_records, \* worker -> Transaction.modified_records
  original_values,  \* worker -> Transaction.original_values: key -> (column -> value)
  pending,          \* worker -> the Table.update in progress (index writes still to do)
  ai,               \* worker -> position of abort's rollback loop in modified_records
  snap,             \* worker -> the rows as they were when the current run began (history)
  executed,         \* worker -> queries executed by the current run (history)
  committed,        \* the rows as left by the last commit that wrote them (history)
  last_read,        \* worker -> the cells its last select or sum returned (history)
  run_log,          \* worker -> the calls of Transaction.run it made: which, and what
                    \* each returned (history)
  transaction_log,  \* Logger.transaction_log: worker -> the records of the file that
                    \* its current call of Transaction.run appended
  pool_size,        \* BufferPoolManager.pool_size
  pages,            \* BufferPoolManager.pages: the resident page ids, least recently used first
  pin_counts,       \* BufferPoolManager.pin_counts: page id -> pin count
  dirty_pages,      \* BufferPoolManager.dirty_pages: set of page ids
  unsaved,          \* the resident pages modified since they were last written to disk (history)
  lost,             \* the pages that left the pool with unwritten modifications (history)
  last_pool,        \* the last get_page or flush_page call and the pool before it (history)
  recency,          \* the resident pages in the order of their last get_page, the
                    \* oldest first (history)
  store,            \* a Table in full: page slots, page_directory, index, versions, is_history
  alloc_log,        \* the record-ids Table.write and Table.update gave out, in order (history)
  row_log,          \* key -> the row as inserted, then as every update left it (history)
  tail_of,          \* tail record-id -> the key of the row its last update was for (history)
  last_query,       \* the last select or select_version and what it returned (history)
  merged,           \* Table.merge has run (history)
  has_index,        \* storage column -> Index.indices[column] is not None
  index_call,       \* the last create_index or drop_index and what it returned (history)
  num_records,      \* Page.num_records of one page
  data,             \* Page.data of that page: the bytes up to the last one written
                    \* (the bytes of the bytearray after them are 0 and never read)
  page_log,         \* the values Page.write accepted, in order (history)
  page_call,        \* the last Page.write, what it returned and the num_records
                    \* before it (history)
  walk,             \* one call of Table.read_value: the directory and INDIRECTION
                    \* content it reads, its position, current_rid and visited_rids
  ins               \* thread -> its insert transaction: the columns, the position in
                    \* Transaction.run and Table.write, the next column i

lmvars == <<lock_dict, last_call>>
tablevars == <<page_directory, indices>>
workervars == <<pc, ti, qi, retries, stats, result, ret>>
txnvars == <<acquired_locks, modified_records, original_values, pending, ai>>
histvars == <<snap, executed, committed, last_read, run_log, transaction_log>>
poolvars == <<pool_size, pages, pin_counts, dirty_pages, unsaved, lost, last_pool, recency>>
storevars == <<store, alloc_log, row_log, tail_of, last_query, merged>>
indexvars == <<has_index, index_call>>
pagevars == <<num_records, data, page_log, page_call>>
stepvars == <<walk, ins>>
unitvars == <<indexvars, pagevars, stepvars>>
vars == <<lock_dict, last_call, scn, page_directory, indices, pc, ti, qi, retries, stats,
          result, ret, acquired_locks, modified_records, original_values, pending, ai,
          snap, executed, committed, last_read, run_log, transaction_log,
          pool_size, pages, pin_counts, dirty_pages, unsaved, lost, last_pool, recency,
          store, alloc_log, row_log, tail_of, last_query, merged,
          has_index, index_call, num_records, data, page_log, page_call, walk, ins>>

\* ------------------------------------------------------------ lock manager
\* a dict with one more (or one overwritten) entry
DictPut(d, k, v) == [x \in (DOMAIN d) \cup {k} |-> IF x = k THEN v ELSE d[x]]
\* a dict without the entry k
DictDel(d, k) == [x \in (DOMAIN d) \ {k} |-> d[x]]
EmptyDict == [x \in {} |-> 0]

\* LockManager.release_lock
release_lock(ld, key, tid) ==
  IF key \in DOMAIN ld /\ tid \in DOMAIN ld[key]
  THEN IF DOMAIN ld[key] = {tid}
       THEN DictDel(ld, key)
       ELSE DictPut(ld, key, DictDel(ld[key], tid))
  ELSE ld

\* LockManager.release_all_locks
release_all_locks_KeepsExclusive(ld, tid) ==
  LET kept == {k \in DOMAIN ld : DOMAIN ld[k] # {tid} \/ ld[k][tid] = EXCLUSIVE} IN
  [k \in kept |-> IF tid \in DOMAIN ld[k] /\ ld[k][tid] = SHARED
                  THEN DictDel(ld[k], tid) ELSE ld[k]]

release_all_locks_NotCalled(ld, tid) == ld

release_all_locks(ld, tid) ==
  LET kept == {k \in DOMAIN ld : DOMAIN ld[k] # {tid}} IN
  [k \in kept |-> IF tid \in DOMAIN ld[k] THEN DictDel(ld[k], tid) ELSE ld[k]]

\* acquire_lock, line 40: an upgrade needs the requester to be the only holder
upgrade_allowed_Always(current_locks, tid) == TRUE

upgrade_allowed(current_locks, tid) == Cardinality(DOMAIN current_locks) = 1

\* acquire_lock, line 47: a shared lock needs that no holder is exclusive
shared_allowed(current_locks) ==
  ~ \E t \in DOMAIN current_locks : current_locks[t] = EXCLUSIVE

\* acquire_lock, line 55: an exclusive lock needs that there is no holder
exclusive_allowed_IgnoresShared(current_locks) ==
  ~ \E t \in DOMAIN current_locks : current_locks[t] = EXCLUSIVE

exclusive_allowed_Always(current_locks) == TRUE

exclusive_allowed(current_locks) == ~ (Cardinality(DOMAIN current_locks) > 0)

\* acquire_lock, the "return False" exits: nothing is written before them
refused_DropsCaller(ld, key, tid) == [ret |-> FALSE, dict |-> release_lock(ld, key, tid)]

refused(ld, key, tid) == [ret |-> FALSE, dict |-> ld]

\* acquire_lock, the exits that write current_locks[transaction_id] and return True
granted_NotRecorded(ld, key, tid, lt) == [ret |-> TRUE, dict |-> ld]

granted(ld, key, tid, lt) ==
  [ret |-> TRUE,
   dict |-> DictPut(ld, key, DictPut(IF key \in DOMAIN ld THEN ld[key] ELSE EmptyDict, tid, lt))]

\* LockManager.acquire_lock: the value returned and the dictionary left behind
acquire_lock(ld, key, tid, lt) ==
  IF key \notin DOMAIN ld
  THEN granted(ld, key, tid, lt)
  ELSE LET current_locks == ld[key] IN
    IF tid \in DOMAIN current_locks /\ current_locks[tid] = lt
    THEN [ret |-> TRUE, dict |-> ld]
    ELSE IF tid \in DOMAIN current_locks /\ current_locks[tid] = SHARED /\ lt = EXCLUSIVE
    THEN IF upgrade_allowed(current_locks, tid)
         THEN granted(ld, key, tid, EXCLUSIVE)
         ELSE refused(ld, key, tid)
    ELSE IF lt = SHARED
    THEN IF ~ shared_allowed(current_locks)
         THEN refused(ld, key, tid)
         ELSE granted(ld, key, tid, SHARED)
    ELSE IF ~ exclusive_allowed(current_locks)
         THEN refused(ld, key, tid)
         ELSE granted(ld, key, tid, EXCLUSIVE)

\* who holds key, and in which mode
Holders(ld, key) == IF key \in DOMAIN ld THEN DOMAIN ld[key] ELSE {}
Holds(ld, key, tid, lt) == tid \in Holders(ld, key) /\ ld[key][tid] = lt

\* ------------------------------------------------------------------- table
\* one table, key column 0; a list of column values is a sequence whose
\* position i + 1 holds column i
key_col == 0
\* the workloads: ct1, ct2 and dl are correctness_tester1, correctness_tester2
\* and deadlock_tester of testM3_2.py; ct2r is ct2 with every second worker
\* updating the rows in descending order; sum is an update next to a sum over
\* all rows; the ab_ workloads are one writing transaction that can be
\* refused its last lock, next to a reader
AbortScenarios == {"ab_none", "ab_key", "ab_twice", "ab_delete"}
Scenarios == {"ct1", "ct2", "ct2r", "dl", "sum"} \cup AbortScenarios
\* create_table(name, num_columns, key): 5 columns for a table whose rows are
\* deleted (Table.delete reaches the columns 0..num_columns-1), 2 in
\* deadlock_tester, else a key and two more
NumColumns(s) == IF s = "dl" THEN 2 ELSE IF s = "ab_delete" THEN 5 ELSE 3
num_columns == NumColumns(scn)
total_columns == num_columns + metadata_columns
\* Table.__init__: last_page_number; no page fills up within the bounds, so
\* Table.write and Table.update never open a page and it keeps this value
last_page_number == total_columns * base_pages + total_columns
\* Table.update: tail_rid = self.last_page_number + 1
TailRid == last_page_number + 1

Min(S) == CHOOSE x \in S : \A y \in S : x <= y

\* Table.read_value on a user column (every user column has an index once
\* Table.write has run): None without a directory entry, else the index's value
read_value(pd, ix, col, rid) ==
  IF rid \notin pd[col] THEN None
  ELSE IF rid \in DOMAIN ix[col] THEN ix[col][rid] ELSE None

\* Table.read_records(key_col, key, [1] * num_columns): the records found
read_records(pd, ix, key) ==
  IF key \in pd[metadata_columns + key_col]
  THEN << [i \in 1..num_columns |-> read_value(pd, ix, metadata_columns + i - 1, key)] >>
  ELSE << >>

\* the columns written before Page.write(None) raises: the position of the
\* first None among the values, or one past the last column
FirstNone(values) ==
  LET bad == {i \in 1..Len(values) : values[i] = None} IN
  IF bad = {} THEN Len(values) + 1 ELSE Min(bad)

\* Table.update up to the write of the tail record (lines 236-351): "noop"
\* when no column changes, "raise" when a None reaches Page.write, else "go"
\* with the values the index is then given for the base record
\* (update_count stays below the merge trigger in these workloads, so the
\* merge at the end of Table.update is not reached)
TableUpdateBegin(pd, ix, columns) ==
  LET rid == columns[key_col + 1]
      latest == [i \in 1..num_columns |-> read_value(pd, ix, metadata_columns + i - 1, rid)]
      updated_values == [i \in 1..num_columns |->
                           IF columns[i] # None THEN columns[i] ELSE latest[i]]
      updated == \E i \in 1..num_columns : columns[i] # None /\ latest[i] # columns[i]
      stop == FirstNone(updated_values)
      written(c) == c < metadata_columns \/ c - metadata_columns + 1 < stop
  IN IF ~ updated
     THEN [out |-> "noop", pd |-> pd, ix |-> ix, vals |-> updated_values]
     ELSE IF rid \notin pd[INDIRECTION_COLUMN]
     THEN [out |-> "raise", pd |-> pd, ix |-> ix, vals |-> updated_values]
     ELSE [out |-> IF stop > num_columns THEN "go" ELSE "raise",
           pd |-> [c \in DOMAIN pd |-> IF written(c) THEN pd[c] \cup {TailRid} ELSE pd[c]],
           ix |-> [c \in DOMAIN ix |->
                     IF written(c)
                     THEN DictPut(ix[c], TailRid, updated_values[c - metadata_columns + 1])
                     ELSE ix[c]],
           vals |-> updated_values]

\* Table.write: nothing when page_directory[key_col] knows the key, else the
\* metadata and the user columns in order, until a None reaches Page.write
TableWrite(pd, ix, columns) ==
  LET rid == columns[key_col + 1]
      stop == FirstNone(columns)
      written(c) == IF rid = None THEN c = INDIRECTION_COLUMN
                    ELSE c < metadata_columns \/ c - metadata_columns + 1 < stop
  IN IF rid \in pd[key_col]
     THEN [out |-> "noop", pd |-> pd, ix |-> ix]
     ELSE [out |-> IF stop > num_columns THEN "done" ELSE "raise",
           pd |-> [c \in DOMAIN pd |-> IF written(c) THEN pd[c] \cup {rid} ELSE pd[c]],
           ix |-> [c \in DOMAIN ix |->
                     IF written(c) THEN DictPut(ix[c], rid, columns[c - metadata_columns + 1])
                     ELSE ix[c]]]

\* Table.delete: pops the directory entry of the columns 0..num_columns-1 (and
\* the index entry of those that have an index); pop raises on a missing entry
TableDelete(pd, ix, rid) ==
  LET missing == {c \in 0..(num_columns - 1) : rid \notin pd[c]}
      stop == IF missing = {} THEN num_columns ELSE Min(missing)
  IN [out |-> IF missing = {} THEN "done" ELSE "raise",
      pd |-> [c \in DOMAIN pd |-> IF c < stop THEN pd[c] \ {rid} ELSE pd[c]],
      ix |-> [c \in DOMAIN ix |-> IF c < stop THEN DictDel(ix[c], rid) ELSE ix[c]]]

\* what select returns for every key (None where read_value finds nothing)
Rows(pd, ix) ==
  [k \in Rids |-> [i \in 1..num_columns |-> read_value(pd, ix, metadata_columns + i - 1, k)]]

\* ------------------------------------------------------------ table storage
\* the table in full: the slots of every page, the slot each directory entry
\* names, the index, the directory snapshots and the history flag. A page
\* takes 512 values and none fills up within the bounds, so Table.write and
\* Table.update put every value into the first page of its column: a
\* directory entry [page_num, index] is represented by its index, and
\* last_page_number keeps the value of Table.__init__. The pages of a column
\* are filled in turn, so the page of a slot follows from its position.
StoreCols(s) == 0..(NumColumns(s) + metadata_columns - 1)
EmptyStore(s) ==
  [data |-> [c \in StoreCols(s) |-> << >>],
   pd |-> [c \in StoreCols(s) |-> EmptyDict],
   ix |-> [c \in StoreCols(s) |-> EmptyDict],
   versions |-> << >>,
   version_timestamps |-> << >>,
   clock |-> 0,
   is_history |-> FALSE]

\* Page.read(index): None past the values written
page_read(t, c, index) ==
  IF index >= Len(t.data[c]) THEN None ELSE t.data[c][index + 1]

\* Page.update(index, value), as Table.update calls it: the slot is rewritten
page_update(t, c, index, value) == [t EXCEPT !.data[c][index + 1] = value]

\* the two loops of Table.write (lines 161-228) and of Table.update (lines
\* 280-351): every value of the record is appended to the page of its column,
\* the directory of the column is given the slot under rid, and the index of a
\* user column is given the value under rid
write_columns(t, rid, values) ==
  [t EXCEPT
     !.data = [c \in DOMAIN @ |-> Append(@[c], values[c + 1])],
     !.pd = [c \in DOMAIN @ |-> DictPut(@[c], rid, Len(t.data[c]))],
     !.ix = [c \in DOMAIN @ |->
               IF c >= metadata_columns THEN DictPut(@[c], rid, values[c + 1]) ELSE @[c]]]

\* Table.write(columns): the record-id is the key; nothing is written when the
\* directory of column key_col has it. TIMESTAMP is read by nothing here: 0
write(t, columns) ==
  LET rid == columns[key_col + 1] IN
  IF rid \in DOMAIN t.pd[key_col] THEN t
  ELSE write_columns(t, rid, <<0, rid, 0, 0>> \o columns)

\* Table.read_value(col, rid): None without a directory entry; a user column
\* out of history mode is answered by the index (it has one since the first
\* Table.write, so the walk of lines 446-478 is not reached); a metadata
\* column, and every column in history mode, by the slot of the directory entry
read_value_in(t, col, rid) ==
  IF rid \notin DOMAIN t.pd[col] THEN None
  ELSE IF col >= metadata_columns /\ ~ t.is_history
  THEN (IF rid \in DOMAIN t.ix[col] THEN t.ix[col][rid] ELSE None)
  ELSE page_read(t, col, t.pd[col][rid])

\* Table.read_records(key_col, key, [1] * num_columns): the rows found
read_records_in(t, key) ==
  IF key \in DOMAIN t.pd[metadata_columns + key_col]
  THEN << [i \in 1..num_columns |-> read_value_in(t, metadata_columns + i - 1, key)] >>
  ELSE << >>

\* Table.delete(rid): for the columns 0..num_columns-1 in turn, the directory
\* entry is popped (a missing one raises) and Index.delete_record is called
delete(t, rid) ==
  LET missing == {c \in 0..(num_columns - 1) : rid \notin DOMAIN t.pd[c]}
      stop == IF missing = {} THEN num_columns ELSE Min(missing)
  IN [out |-> IF missing = {} THEN "done" ELSE "raise",
      t |-> [t EXCEPT !.pd = [c \in DOMAIN @ |-> IF c < stop THEN DictDel(@[c], rid) ELSE @[c]],
                      !.ix = [c \in DOMAIN @ |-> IF c < stop THEN DictDel(@[c], rid) ELSE @[c]]]]

\* the rows read for the record-ids rids, in ascending order (lines 407-429):
\* a record-id without an entry in the directory of the key column gives none
RECURSIVE records_of(_, _)
records_of(t, rids) ==
  IF rids = {} THEN << >>
  ELSE LET rid == Min(rids)
           rest == records_of(t, rids \ {rid})
       IN IF rid \in DOMAIN t.pd[metadata_columns + key_col]
          THEN << [i \in 1..num_columns |-> read_value_in(t, metadata_columns + i - 1, rid)] >>
                 \o rest
          ELSE rest

\* Table.read_records(col_num, search_key, [1] * num_columns) on a column
\* other than the key: the record-ids come from the index of the column
\* (Index.get_rid_in_col_by_value), in history mode from the directory's slots
read_records_by(t, col_num, search_key) ==
  LET actual_col == col_num + metadata_columns
      rids == IF ~ t.is_history
              THEN {r \in DOMAIN t.ix[actual_col] : t.ix[actual_col][r] = search_key}
              ELSE {r \in DOMAIN t.pd[actual_col] :
                      page_read(t, actual_col, t.pd[actual_col][r]) = search_key}
  IN records_of(t, rids)

\* schema_encoding |= (1 << i) for the changed columns i (positions i + 1)
RECURSIVE schema_encoding(_)
schema_encoding(changed) ==
  IF changed = {} THEN 0
  ELSE LET i == Min(changed) IN 2 ^ (i - 1) + schema_encoding(changed \ {i})

\* Table.update(columns): nothing when no column changes; else the tail
\* record under tail_rid = last_page_number + 1, the INDIRECTION slot of the
\* directory entry of rid rewritten to tail_rid, and the index of rid
update(t, columns) ==
  LET rid == columns[key_col + 1]
      old_indirection == read_value_in(t, INDIRECTION_COLUMN, rid)
      tail_rid == TailRid
      latest == [i \in 1..num_columns |-> read_value_in(t, metadata_columns + i - 1, rid)]
      changed == {i \in 1..num_columns : columns[i] # None /\ latest[i] # columns[i]}
      updated_values == [i \in 1..num_columns |->
                           IF columns[i] # None THEN columns[i] ELSE latest[i]]
      tail == write_columns(t, tail_rid,
                            <<old_indirection, tail_rid, 0, schema_encoding(changed)>>
                              \o updated_values)
      base_indirection_info == tail.pd[INDIRECTION_COLUMN][rid]
      repointed == page_update(tail, INDIRECTION_COLUMN, base_indirection_info, tail_rid)
  IN IF changed = {} THEN t
     ELSE [repointed EXCEPT
             !.ix = [c \in DOMAIN @ |->
                       IF c >= metadata_columns
                       THEN DictPut(@[c], rid, updated_values[c - metadata_columns + 1])
                       ELSE @[c]]]

\* the page of the slot at position index of a column
page_num(index) == index \div RECORDS_PER_PAGE + 1

\* Table.merge, lines 723-745: the directory entries <<column, record-id>>
\* that name a slot in a tail page (page_num > 16)
tail_to_rid(t) ==
  {e \in UNION {{<<c, rid>> : rid \in DOMAIN t.pd[c]} : c \in DOMAIN t.pd} :
     page_num(t.pd[e[1]][e[2]]) > base_pages}

\* Table.merge: the value of every directory entry in a tail page is written
\* to a base page, the entry and the index re-pointed to it, and INDIRECTION
\* of the record is written anew as 0 when its key column was among them; a
\* record without an entry in a tail page is left as it is. Every entry is in
\* the first page within the bounds: nothing is consolidated
RECURSIVE consolidate(_, _)
consolidate(t, entries) ==
  IF entries = {} THEN t
  ELSE LET e == CHOOSE x \in entries : \A y \in entries : x[1] < y[1] \/ (x[1] = y[1] /\ x[2] <= y[2])
           c == e[1]
           rid == e[2]
           value == page_read(t, c, t.pd[c][rid])
           moved == [t EXCEPT !.data[c] = Append(@, value),
                              !.pd[c] = DictPut(@, rid, Len(t.data[c])),
                              !.ix[c] = IF c >= metadata_columns THEN DictPut(@, rid, value) ELSE @]
           reset == IF c = metadata_columns
                    THEN [moved EXCEPT
                            !.data[INDIRECTION_COLUMN] = Append(@, 0),
                            !.pd[INDIRECTION_COLUMN] =
                               DictPut(@, rid, Len(moved.data[INDIRECTION_COLUMN]))]
                    ELSE moved
       IN consolidate(reset, entries \ {e})

merge(t) == consolidate(t, tail_to_rid(t))

\* Table.make_ver_copy: a copy of the directory is appended to versions, of
\* which the last max_versions are kept, and time() to version_timestamps
\* likewise; time() is the number of the call: clock counts the snapshots made
make_ver_copy_KeepsAll(t) ==
  [t EXCEPT !.versions = Append(t.versions, t.pd),
            !.version_timestamps = Append(t.version_timestamps, t.clock + 1),
            !.clock = t.clock + 1]
make_ver_copy(t) ==
  LET all == Append(t.versions, t.pd)
      stamps == Append(t.version_timestamps, t.clock + 1)
  IN [t EXCEPT !.versions = IF Len(all) > max_versions THEN Tail(all) ELSE all,
               !.version_timestamps = IF Len(all) > max_versions THEN Tail(stamps) ELSE stamps,
               !.clock = t.clock + 1]

\* Table.select_version(version_num): a negative number counts back from the
\* end of versions; the directory becomes the snapshot, in history mode
select_version(t, version_num) ==
  LET n == Len(t.versions)
      v == IF version_num < 0 THEN n + version_num ELSE version_num
  IN IF n = 0 \/ v < 0 \/ v >= n
     THEN [ok |-> FALSE, t |-> t]
     ELSE [ok |-> TRUE, t |-> [t EXCEPT !.is_history = TRUE, !.pd = t.versions[v + 1]]]

\* ------------------------------------------------------------ query facade
\* the facade that calls Table.update / read_records / delete (the one under
\* src/ calls a different table): a failure or an exception is returned as False
QueryUpdate(pd, ix, key, cols) ==
  IF key \notin pd[metadata_columns + key_col]
  THEN [out |-> "false", pd |-> pd, ix |-> ix, vals |-> cols]
  ELSE LET r == TableUpdateBegin(pd, ix, [cols EXCEPT ![key_col + 1] = key]) IN
       [out |-> IF r.out = "raise" THEN "false" ELSE r.out,
        pd |-> r.pd, ix |-> r.ix, vals |-> r.vals]

QueryDelete(pd, ix, key) ==
  LET r == TableDelete(pd, ix, key) IN
  [out |-> IF r.out = "raise" THEN "false" ELSE "true", pd |-> r.pd, ix |-> r.ix]

\* the cells <<rid, column, value>> a select of key returns (none: False)
QuerySelect(pd, ix, key) ==
  LET recs == read_records(pd, ix, key) IN
  IF recs = << >> THEN {}
  ELSE {<<key, i - 1, recs[1][i]>> : i \in 1..num_columns}

\* the cells a sum over the keys lo..hi of column col adds up (none: False)
QuerySum(pd, ix, lo, hi, col) ==
  {<<k, col, read_value(pd, ix, metadata_columns + col, k)>> :
     k \in {r \in Rids : lo <= r /\ r <= hi /\ r \in pd[metadata_columns + key_col]}}

\* Index.locate(key, column) of the facade: the base record-id of the row
\* with that key (Table.write: rid = columns[key_col]), 0 when there is none
locate(t, key) == IF key \in DOMAIN t.pd[metadata_columns + key_col] THEN key ELSE 0

\* Table.get_record(rid) of the facade: the record stored under rid, its
\* INDIRECTION slot and its user columns as the directory entries of rid name
\* them; NoRecord (None) without an entry
NoRecord == [indirection |-> None, columns |-> << >>]
get_record(t, rid) ==
  IF rid \notin DOMAIN t.pd[INDIRECTION_COLUMN] THEN NoRecord
  ELSE [indirection |-> page_read(t, INDIRECTION_COLUMN, t.pd[INDIRECTION_COLUMN][rid]),
        columns |-> [i \in 1..num_columns |->
                       page_read(t, metadata_columns + i - 1,
                                 t.pd[metadata_columns + i - 1][rid])]]

\* Query.select_version, the loop `for _ in range(relative_version)`: the
\* record-id reached after that many steps along INDIRECTION, None when a
\* record is missing or its INDIRECTION is 0; range(n) is empty for n <= 0
RECURSIVE follow_lineage(_, _, _)
follow_lineage(t, version_rid, steps) ==
  IF steps <= 0 THEN version_rid
  ELSE LET record == get_record(t, version_rid) IN
       IF record = NoRecord \/ record.indirection = 0 THEN None
       ELSE follow_lineage(t, record.indirection, steps - 1)

\* Query.select_version(key, key_col, [1] * num_columns, relative_version):
\* the rows returned (none: False)
QuerySelectVersion(t, key, relative_version) ==
  LET rid == locate(t, key)
      version_rid == IF rid = 0 THEN None ELSE follow_lineage(t, rid, relative_version)
      record == IF version_rid = None THEN NoRecord ELSE get_record(t, version_rid)
  IN IF record = NoRecord THEN << >> ELSE << record.columns >>

\* Query.insert(*columns): False for a wrong number of columns; else the
\* record is handed to the table and True is returned, with no look at what
\* the table did.  The table's insert is Table.write, which returns None
\* whether it wrote the record or found the key (insert_record needs
\* _get_next_rid, which the table does not define)
QueryInsert(t, columns) ==
  IF Len(columns) # num_columns THEN [out |-> FALSE, t |-> t]
  ELSE [out |-> TRUE, t |-> write(t, columns)]

\* Transaction.run, lines 99-102: the transaction aborts when the query
\* returned False
aborts(res) == res = FALSE

\* Query.update on the table in full: False when the key is missing, else
\* Table.update of the columns with the key in the key column
QueryUpdateIn(t, key, cols) ==
  IF locate(t, key) = 0 THEN [out |-> FALSE, t |-> t]
  ELSE [out |-> TRUE, t |-> update(t, [cols EXCEPT ![key_col + 1] = key])]

\* Query.delete on the table in full: False when the key is missing or
\* Table.delete raises
QueryDeleteIn(t, key) ==
  IF locate(t, key) = 0 THEN [out |-> FALSE, t |-> t]
  ELSE LET r == delete(t, key) IN [out |-> r.out = "done", t |-> r.t]

\* ---------------------------------------------------------------- workloads
Q(op, key, cols, hi, col) == [op |-> op, key |-> key, cols |-> cols, hi |-> hi, col |-> col]
Update(key, cols) == Q("update", key, cols, 0, 0)
Select(key) == Q("select", key, << >>, 0, 0)
Sum(lo, hi, col) == Q("sum", lo, << >>, hi, col)
Delete(key) == Q("delete", key, << >>, 0, 0)

\* testM3_2.py: worker j writes 2 + j (j from 0) into every non-key column
ValueOf(w) == 1 + w
\* deadlock_tester: transaction w writes 100 * key + w
DlValue(k, w) == 100 * k + w
DlFirst(w) == ((w - 1) % NumKeys) + 1
DlSecond(w) == (w % NumKeys) + 1

\* the transactions handed to worker w: a sequence of sequences of queries
\* the key k (None: not given) followed by v in every other column
Fill(s, k, v) == [i \in 1..NumColumns(s) |-> IF i = key_col + 1 THEN k ELSE v]

Prog(s, w) ==
  CASE s = "ct1" -> [k \in 1..NumKeys |-> << Update(k, Fill(s, None, ValueOf(w))) >>]
    [] s = "ct2" -> << [k \in 1..NumKeys |-> Update(k, Fill(s, None, ValueOf(w)))] >>
    [] s = "ct2r" -> << [k \in 1..NumKeys |->
                          Update(IF w % 2 = 1 THEN k ELSE NumKeys + 1 - k,
                                 Fill(s, None, ValueOf(w)))] >>
    [] s = "dl" -> << << Update(DlFirst(w), <<DlFirst(w), DlValue(DlFirst(w), w)>>) >>
                      \o [i \in 1..NumSelects |-> Select(DlFirst(w))]
                      \o << Update(DlSecond(w), <<DlSecond(w), DlValue(DlSecond(w), w)>>) >> >>
    [] s = "sum" -> IF w = 1 THEN << << Update(NumKeys, <<NumKeys, 7, 7>>) >> >>
                    ELSE IF w = 2 THEN << << Sum(1, NumKeys, 1) >> >> ELSE << >>
    [] OTHER ->
         IF w = 1
         THEN << (CASE s = "ab_none" -> << Update(1, <<None, 7, 7>>) >>
                    [] s = "ab_key" -> << Update(1, <<1, 7, 7>>) >>
                    [] s = "ab_twice" -> << Update(1, <<1, 7, 7>>), Update(1, <<1, 8, 8>>) >>
                    [] OTHER -> << Delete(1) >>)
                 \o << Update(NumKeys, Fill(s, NumKeys, 9)) >> >>
         ELSE IF w = 2 THEN << << Select(NumKeys) >>, << Sum(1, NumKeys, 1) >> >>
         ELSE << >>

\* the row inserted for key k before the workers start
InitialRow(s, k) == IF s = "dl" THEN <<k, 100 * k>> ELSE Fill(s, k, 0)

\* id(transaction): one id per Transaction object
TxnId(w, i) == (w - 1) * (NumKeys + 1) + i

\* ------------------------------------------------- the running transaction
Txn(w) == Prog(scn, w)[ti[w]]
CurQ(w) == Txn(w)[qi[w]]
CurTid(w) == TxnId(w, ti[w])
LockKey(k) == <<TableName, k>>
\* the keys of Transaction.modified_records
ModifiedKeys(w) == {modified_records[w][i].key : i \in 1..Len(modified_records[w])}

\* ----------------------------------------------- free lock-manager calls
NoCall ==
  [op |-> "none", key |-> <<TableName, 0>>, tid |-> 0, mode |-> SHARED, ret |-> TRUE,
   before |-> EmptyDict]

\* a client calls acquire_lock(table, rid, tid, lt)
AcquireLock(key, tid, lt) ==
  LET r == acquire_lock(lock_dict, key, tid, lt) IN
  /\ lock_dict' = r.dict
  /\ last_call' = [op |-> "acquire", key |-> key, tid |-> tid, mode |-> lt, ret |-> r.ret,
                  before |-> lock_dict]
  /\ UNCHANGED <<poolvars, storevars, unitvars, scn, tablevars, workervars, txnvars, histvars>>

\* a client calls release_lock(table, rid, tid)
ReleaseLock(key, tid) ==
  /\ lock_dict' = release_lock(lock_dict, key, tid)
  /\ last_call' = [op |-> "release", key |-> key, tid |-> tid, mode |-> SHARED, ret |-> TRUE,
                  before |-> lock_dict]
  /\ UNCHANGED <<poolvars, storevars, unitvars, scn, tablevars, workervars, txnvars, histvars>>

\* a client calls release_all_locks(tid)
ReleaseAllLocks(tid) ==
  /\ lock_dict' = release_all_locks(lock_dict, tid)
  /\ last_call' = [op |-> "release_all", key |-> <<TableName, 0>>, tid |-> tid,
                  mode |-> SHARED, ret |-> TRUE, before |-> lock_dict]
  /\ UNCHANGED <<poolvars, storevars, unitvars, scn, tablevars, workervars, txnvars, histvars>>

\* the state after create_table and the inserts of workload s, before any
\* worker thread is started
TxnInit(s) ==
  /\ scn = s
  /\ lock_dict = EmptyDict
  /\ last_call = NoCall
  /\ page_directory = [c \in 0..(NumColumns(s) + metadata_columns - 1) |-> Rids]
  /\ indices = [c \in metadata_columns..(NumColumns(s) + metadata_columns - 1) |->
                  [k \in Rids |-> InitialRow(s, k)[c - metadata_columns + 1]]]
  /\ pc = [w \in Workers |-> "start"]
  /\ ti = [w \in Workers |-> 1]
  /\ qi = [w \in Workers |-> 1]
  /\ retries = [w \in Workers |-> 0]
  /\ stats = [w \in Workers |-> << >>]
  /\ result = [w \in Workers |-> 0]
  /\ ret = [w \in Workers |-> FALSE]
  /\ acquired_locks = [w \in Workers |-> {}]
  /\ modified_records = [w \in Workers |-> << >>]
  /\ original_values = [w \in Workers |-> EmptyDict]
  /\ pending = [w \in Workers |-> << >>]
  /\ ai = [w \in Workers |-> 0]
  /\ snap = [w \in Workers |-> [k \in Rids |-> InitialRow(s, k)]]
  /\ executed = [w \in Workers |-> 0]
  /\ committed = [k \in Rids |-> InitialRow(s, k)]
  /\ last_read = [w \in Workers |-> {}]
  /\ run_log = [w \in Workers |-> << >>]
  /\ transaction_log = [w \in Workers |-> << >>]

\* BufferPoolManager.__init__(pool_size)
NoPoolCall == [op |-> "none", key |-> <<0, None>>, pages |-> << >>, pin_counts |-> EmptyDict,
               dirty |-> FALSE]
PoolInit(size) ==
  /\ pool_size = size
  /\ pages = << >>
  /\ pin_counts = EmptyDict
  /\ dirty_pages = {}
  /\ unsaved = {}
  /\ lost = {}
  /\ last_pool = NoPoolCall
  /\ recency = << >>

\* create_table: a table without rows, and nothing asked of it yet
NoQuery == [op |-> "none", key |-> 0, version |-> 0, out |-> << >>]
StoreInit(s) ==
  /\ store = EmptyStore(s)
  /\ alloc_log = << >>
  /\ row_log = EmptyDict
  /\ tail_of = EmptyDict
  /\ last_query = NoQuery
  /\ merged = FALSE

\* Table.__init__, line 104: Index(self) has no index on any of the
\* total_columns columns, and create_index(self.key_col) gives that column one
NoIndexCall == [op |-> "none", col |-> 0, out |-> TRUE]
IndexInit(s) ==
  /\ has_index = [c \in StoreCols(s) |-> c = key_col]
  /\ index_call = NoIndexCall

\* Page.__init__: num_records = 0, data = bytearray(PAGE_SIZE)
NoPageCall == [op |-> "none", value |-> 0, out |-> TRUE, num_records |-> 0]
PageInit ==
  /\ num_records = 0
  /\ data = << >>
  /\ page_log = << >>
  /\ page_call = NoPageCall

\* no call of Table.read_value under way
NoWalk == [pc |-> "none", col_dir |-> {}, ind_dir |-> {}, indirection |-> << >>,
           follows |-> FALSE, rid |-> 0, current_rid |-> 0, visited_rids |-> {}]
\* no thread runs an insert transaction
NoInsert == [w \in Workers |-> [pc |-> "none", columns |-> << >>, i |-> 0]]
StepInit ==
  /\ walk = NoWalk
  /\ ins = NoInsert

InitOf(s) ==
  TxnInit(s) /\ PoolInit(MaxPoolSize) /\ StoreInit(s) /\ IndexInit(s) /\ PageInit /\ StepInit

Init == InitOf("ct1")

Next ==
  \/ \E key \in LockKeys, tid \in TxnIds, lt \in LockTypes : AcquireLock(key, tid, lt)
  \/ \E key \in LockKeys, tid \in TxnIds : ReleaseLock(key, tid)
  \/ \E tid \in TxnIds : ReleaseAllLocks(tid)

Spec == Init /\ [][Next]_vars

\* --------------------------------------------- transaction worker threads
\* run_log takes the runs worker w can make: max_retries of each of its
\* transactions
MaxRuns(w) == max_retries * Len(Prog(scn, w))
Logged(w, log, run) == IF Len(log) < MaxRuns(w) THEN Append(log, run) ELSE log

\* TransactionWorker.__run, line 54: a failed run counts as a retry
retries_after_NotCounted(success, n) == n

retries_after(success, n) == IF ~ success THEN n + 1 ELSE n

\* TransactionWorker.__run, line 48: while not success and retries < max_retries
run_again_IgnoresSuccess(success, n) == n < max_retries

run_again(success, n) == ~ success /\ n < max_retries

\* Transaction.run begins (again): the first query is next
BeginRun(w) ==
  /\ qi' = [qi EXCEPT ![w] = 1]
  /\ snap' = [snap EXCEPT ![w] = Rows(page_directory, indices)]
  /\ executed' = [executed EXCEPT ![w] = 0]
  /\ transaction_log' = [transaction_log EXCEPT ![w] = << >>]

\* TransactionWorker.run: the thread starts on its first transaction
WorkerStart(w) ==
  /\ pc[w] = "start"
  /\ IF Len(Prog(scn, w)) = 0
     THEN /\ pc' = [pc EXCEPT ![w] = "done"]
          /\ UNCHANGED <<qi, snap, executed, transaction_log>>
     ELSE /\ pc' = [pc EXCEPT ![w] = "query"]
          /\ BeginRun(w)
  /\ UNCHANGED <<poolvars, storevars, unitvars, lmvars, scn, tablevars, ti, retries, stats, result, ret, txnvars,
                 committed, last_read, run_log>>

\* Logger.log_transaction(transaction_id, operation, table, key, columns,
\* values): one record is appended to the file (its timestamp, columns and
\* values are left out)
log_transaction_Dropped(log, transaction_id, operation, table, key) == log

log_transaction(log, transaction_id, operation, table, key) ==
  Append(log, [transaction_id |-> transaction_id, operation |-> operation,
               table |-> table, key |-> key])

\* Transaction.run, lines 65-92: log the query, pick the lock type, acquire
TxnLock(w) ==
  /\ pc[w] = "query"
  /\ LET q == CurQ(w)
         lock_type == IF q.op \in {"select", "sum"} THEN SHARED ELSE EXCLUSIVE
         r == acquire_lock(lock_dict, LockKey(q.key), CurTid(w), lock_type)
     IN /\ transaction_log' = [transaction_log EXCEPT ![w] =
                                log_transaction(@, CurTid(w), q.op, TableName, q.key)]
        /\ lock_dict' = r.dict
        /\ IF r.ret
           THEN /\ acquired_locks' = [acquired_locks EXCEPT ![w] = @ \cup {LockKey(q.key)}]
                /\ pc' = [pc EXCEPT ![w] = IF q.op \in {"update", "delete"}
                                           THEN "save" ELSE "exec"]
                /\ UNCHANGED ai
           ELSE /\ pc' = [pc EXCEPT ![w] = "abort"]
                /\ ai' = [ai EXCEPT ![w] = Len(modified_records[w])]
                /\ UNCHANGED acquired_locks
  /\ UNCHANGED <<poolvars, storevars, unitvars, last_call, scn, tablevars, ti, qi, retries, stats, result, ret,
                 modified_records, original_values, pending, snap, executed, committed, last_read,
                 run_log>>

\* Transaction._save_original_state(table, key, cols)
save_original_state(ov, pd, ix, key, cols) ==
  LET record == read_records(pd, ix, key)
      saved == {i \in 1..Len(cols) : cols[i] # None}
      old == IF LockKey(key) \in DOMAIN ov THEN ov[LockKey(key)] ELSE EmptyDict
  IN IF Len(cols) = 0 \/ record = << >>
     THEN ov
     ELSE DictPut(ov, LockKey(key),
                  [c \in (DOMAIN old) \cup {i - 1 : i \in saved} |->
                     IF c + 1 \in saved THEN record[1][c + 1] ELSE old[c]])

\* Transaction.run, lines 94-96: the before-image of an update or a delete
TxnSave(w) ==
  /\ pc[w] = "save"
  /\ LET q == CurQ(w)
         cols == IF q.op = "update" THEN q.cols ELSE [i \in 1..num_columns |-> i - 1]
     IN original_values' = [original_values EXCEPT ![w] =
          save_original_state(@, page_directory, indices, q.key, cols)]
  /\ pc' = [pc EXCEPT ![w] = "exec"]
  /\ UNCHANGED <<poolvars, storevars, unitvars, lmvars, scn, tablevars, ti, qi, retries, stats, result, ret,
                 acquired_locks, modified_records, pending, ai, histvars>>

\* where run goes after a query that succeeded: the next query, or commit
AfterQuery(w) == IF qi[w] = Len(Txn(w)) THEN "commit" ELSE "query"

\* Transaction.run, lines 101-111: the query returned something other than False
QueryDone(w, modifies) ==
  /\ pc' = [pc EXCEPT ![w] = AfterQuery(w)]
  /\ qi' = [qi EXCEPT ![w] = IF qi[w] = Len(Txn(w)) THEN @ ELSE @ + 1]
  /\ executed' = [executed EXCEPT ![w] = @ + 1]
  /\ modified_records' = [modified_records EXCEPT ![w] =
                            IF modifies THEN Append(@, CurQ(w)) ELSE @]

\* Transaction.run, line 102: the query returned False
QueryFailed(w) ==
  /\ pc' = [pc EXCEPT ![w] = "abort"]
  /\ ai' = [ai EXCEPT ![w] = Len(modified_records[w])]
  /\ UNCHANGED <<qi, executed, modified_records>>

\* the cells read, each with the committed value of the cell and whether the
\* reader's own transaction has modified the row
ReadCells(w, cells) ==
  {[rid |-> c[1], col |-> c[2], val |-> c[3], com |-> committed[c[1]][c[2] + 1],
    own |-> c[1] \in ModifiedKeys(w)] : c \in cells}

\* Transaction.run, line 99: result = query(*args)
TxnExec(w) ==
  /\ pc[w] = "exec"
  /\ LET q == CurQ(w) IN
     CASE q.op = "select" ->
            LET cells == QuerySelect(page_directory, indices, q.key) IN
            /\ IF cells = {} THEN QueryFailed(w) ELSE QueryDone(w, FALSE) /\ UNCHANGED ai
            /\ last_read' = [last_read EXCEPT ![w] = ReadCells(w, cells)]
            /\ UNCHANGED <<tablevars, pending>>
       [] q.op = "sum" ->
            LET cells == QuerySum(page_directory, indices, q.key, q.hi, q.col) IN
            /\ IF cells = {} THEN QueryFailed(w) ELSE QueryDone(w, FALSE) /\ UNCHANGED ai
            /\ last_read' = [last_read EXCEPT ![w] = ReadCells(w, cells)]
            /\ UNCHANGED <<tablevars, pending>>
       [] q.op = "update" ->
            LET r == QueryUpdate(page_directory, indices, q.key, q.cols) IN
            /\ page_directory' = r.pd
            /\ indices' = r.ix
            /\ CASE r.out = "false" -> QueryFailed(w) /\ UNCHANGED pending
                 [] r.out = "noop" -> QueryDone(w, TRUE) /\ UNCHANGED <<ai, pending>>
                 [] OTHER ->
                      /\ pending' = [pending EXCEPT ![w] =
                                       [rid |-> q.key, vals |-> r.vals, col |-> 0,
                                        from |-> "run"]]
                      /\ pc' = [pc EXCEPT ![w] = "index"]
                      /\ UNCHANGED <<qi, executed, modified_records, ai>>
            /\ UNCHANGED last_read
       [] OTHER ->
            LET r == QueryDelete(page_directory, indices, q.key) IN
            /\ page_directory' = r.pd
            /\ indices' = r.ix
            /\ IF r.out = "false" THEN QueryFailed(w) ELSE QueryDone(w, TRUE) /\ UNCHANGED ai
            /\ UNCHANGED <<pending, last_read>>
  /\ UNCHANGED <<poolvars, storevars, unitvars, lmvars, scn, ti, retries, stats, result, ret, acquired_locks,
                 original_values, snap, committed, run_log, transaction_log>>

\* Table.update, lines 364-366: one index.add_or_move_record_by_col(column,
\* rid, value) per step; after the last one the caller goes on
IndexWrite(w) ==
  /\ pc[w] = "index"
  /\ LET p == pending[w] IN
     /\ indices' = [indices EXCEPT ![metadata_columns + p.col] =
                      DictPut(@, p.rid, p.vals[p.col + 1])]
     /\ IF p.col + 1 < num_columns
        THEN /\ pending' = [pending EXCEPT ![w].col = @ + 1]
             /\ UNCHANGED <<pc, qi, executed, modified_records, ai>>
        ELSE /\ pending' = [pending EXCEPT ![w] = << >>]
             /\ IF p.from = "run"
                THEN QueryDone(w, TRUE) /\ UNCHANGED ai
                ELSE /\ pc' = [pc EXCEPT ![w] = "abort"]
                     /\ ai' = [ai EXCEPT ![w] = @ - 1]
                     /\ UNCHANGED <<qi, executed, modified_records>>
  /\ UNCHANGED <<poolvars, storevars, unitvars, lmvars, scn, page_directory, ti, retries, stats, result, ret,
                 acquired_locks, original_values, snap, committed, last_read, run_log, transaction_log>>

\* Transaction.commit (called at line 114): log, release every lock, clear
TxnCommit(w) ==
  /\ pc[w] = "commit"
  /\ lock_dict' = release_all_locks(lock_dict, CurTid(w))
  /\ acquired_locks' = [acquired_locks EXCEPT ![w] = {}]
  /\ modified_records' = [modified_records EXCEPT ![w] = << >>]
  /\ original_values' = [original_values EXCEPT ![w] = EmptyDict]
  /\ ret' = [ret EXCEPT ![w] = TRUE]
  /\ pc' = [pc EXCEPT ![w] = "returned"]
  /\ committed' = [k \in Rids |-> IF k \in ModifiedKeys(w)
                                  THEN Rows(page_directory, indices)[k] ELSE committed[k]]
  /\ run_log' = [run_log EXCEPT ![w] = Logged(w, @, [txn |-> ti[w], ret |-> TRUE])]
  /\ UNCHANGED <<poolvars, storevars, unitvars, last_call, scn, tablevars, ti, qi, retries, stats, result, pending, ai,
                 snap, executed, last_read, transaction_log>>

\* Transaction.abort, lines 153 and 163: the columns handed to Table.update
\* (restore an update) or Table.write (restore a delete)
RollbackColumns(saved) ==
  [i \in 1..num_columns |-> IF i - 1 \in DOMAIN saved THEN saved[i - 1] ELSE None]

\* Transaction.abort, lines 137-176: one modified record of the rollback loop,
\* newest first; an exception leaves the loop for the finally block
AbortRollback(w) ==
  /\ pc[w] = "abort"
  /\ IF ai[w] = 0
     THEN /\ pc' = [pc EXCEPT ![w] = "release"]
          /\ UNCHANGED <<tablevars, pending, ai>>
     ELSE LET rec == modified_records[w][ai[w]]
              ov == original_values[w]
          IN IF LockKey(rec.key) \notin DOMAIN ov
             THEN /\ ai' = [ai EXCEPT ![w] = @ - 1]
                  /\ UNCHANGED <<pc, tablevars, pending>>
             ELSE LET columns == RollbackColumns(ov[LockKey(rec.key)])
                      r == IF rec.op = "update"
                           THEN TableUpdateBegin(page_directory, indices, columns)
                           ELSE TableWrite(page_directory, indices, columns)
                  IN /\ page_directory' = r.pd
                     /\ indices' = r.ix
                     /\ CASE r.out = "raise" ->
                               /\ pc' = [pc EXCEPT ![w] = "release"]
                               /\ UNCHANGED <<pending, ai>>
                          [] r.out = "go" ->
                               /\ pc' = [pc EXCEPT ![w] = "index"]
                               /\ pending' = [pending EXCEPT ![w] =
                                                [rid |-> columns[key_col + 1], vals |-> r.vals,
                                                 col |-> 0, from |-> "abort"]]
                               /\ UNCHANGED ai
                          [] OTHER ->
                               /\ ai' = [ai EXCEPT ![w] = @ - 1]
                               /\ UNCHANGED <<pc, pending>>
  /\ UNCHANGED <<poolvars, storevars, unitvars, lmvars, scn, ti, qi, retries, stats, result, ret, acquired_locks,
                 modified_records, original_values, histvars>>

\* Transaction.abort, lines 178-186: the finally block releases every lock
\* and clears the transaction; run returns False (an exception of the rollback
\* is caught by run, whose second abort finds nothing left to do)
AbortRelease(w) ==
  /\ pc[w] = "release"
  /\ lock_dict' = release_all_locks(lock_dict, CurTid(w))
  /\ acquired_locks' = [acquired_locks EXCEPT ![w] = {}]
  /\ modified_records' = [modified_records EXCEPT ![w] = << >>]
  /\ original_values' = [original_values EXCEPT ![w] = EmptyDict]
  /\ ret' = [ret EXCEPT ![w] = FALSE]
  /\ pc' = [pc EXCEPT ![w] = "returned"]
  /\ run_log' = [run_log EXCEPT ![w] = Logged(w, @, [txn |-> ti[w], ret |-> FALSE])]
  /\ UNCHANGED <<poolvars, storevars, unitvars, last_call, scn, tablevars, ti, qi, retries, stats, result, pending, ai,
                 snap, executed, committed, last_read, transaction_log>>

\* TransactionWorker.__run, lines 48-60: run returned; retry, or record the
\* outcome and go to the next transaction, or finish
WorkerReturned(w) ==
  /\ pc[w] = "returned"
  /\ LET success == ret[w]
         n == retries_after(success, retries[w])
     IN IF run_again(success, n)
        THEN /\ retries' = [retries EXCEPT ![w] = n]
             /\ pc' = [pc EXCEPT ![w] = "query"]
             /\ BeginRun(w)
             /\ UNCHANGED <<ti, stats, result>>
        ELSE /\ stats' = [stats EXCEPT ![w] = Append(@, success)]
             /\ retries' = [retries EXCEPT ![w] = 0]
             /\ IF ti[w] < Len(Prog(scn, w))
                THEN /\ ti' = [ti EXCEPT ![w] = @ + 1]
                     /\ pc' = [pc EXCEPT ![w] = "query"]
                     /\ BeginRun(w)
                     /\ UNCHANGED result
                ELSE /\ pc' = [pc EXCEPT ![w] = "done"]
                     /\ result' = [result EXCEPT ![w] =
                                     Cardinality({i \in 1..Len(stats'[w]) : stats'[w][i]})]
                     /\ UNCHANGED <<ti, qi, snap, executed, transaction_log>>
  /\ UNCHANGED <<poolvars, storevars, unitvars, lmvars, scn, tablevars, ret, txnvars, committed, last_read, run_log>>

InitTxn == \E s \in Scenarios : InitOf(s)

WorkerStep(w) ==
  \/ WorkerStart(w)
  \/ TxnLock(w)
  \/ TxnSave(w)
  \/ TxnExec(w)
  \/ IndexWrite(w)
  \/ TxnCommit(w)
  \/ AbortRollback(w)
  \/ AbortRelease(w)
  \/ WorkerReturned(w)

NextTxn == \E w \in Workers : WorkerStep(w)

SpecTxn == InitTxn /\ [][NextTxn]_vars

\* the workloads of the specification with fairness: deadlock_tester,
\* correctness_tester2, and the update next to a sum
LiveScenarios == {"dl", "ct2", "sum"}
InitLive == \E s \in LiveScenarios : InitOf(s)

\* the threads keep being scheduled: while some thread has a step to take, a
\* step is eventually taken
FairSpecTxn == InitLive /\ [][NextTxn]_vars /\ WF_vars(NextTxn)

AllDone == \A w \in Workers : pc[w] = "done"

\* ------------------------------------------------------------- buffer pool
\* page ids (path, page_num, col) of one table path: <<page_num, col>>, where
\* col is None when the caller leaves the parameter out
PoolCols == {None, 0}
PageIds == {<<n, c>> : n \in 1..NumPages, c \in PoolCols}
Resident(pgs) == {pgs[i] : i \in 1..Len(pgs)}
\* OrderedDict.pop(page_id)
Without(pgs, k) == SelectSeq(pgs, LAMBDA x : x # k)

\* the pool as one value
Pool == [pages |-> pages, pin_counts |-> pin_counts, dirty_pages |-> dirty_pages,
         unsaved |-> unsaved, lost |-> lost]

\* BufferPoolManager.flush_page: a resident page is written to disk
flush_page(st, k) ==
  IF k \in Resident(st.pages) THEN [st EXCEPT !.unsaved = @ \ {k}] ELSE st

\* _evict_page lines 74-81 and _force_evict_page lines 99-106: write the page
\* back if its id is in dirty_pages, then drop it from pages and pin_counts
drop_page(st, k) ==
  LET f == IF k \in st.dirty_pages
           THEN [flush_page(st, k) EXCEPT !.dirty_pages = @ \ {k}]
           ELSE st
  IN [f EXCEPT !.pages = Without(@, k),
               !.pin_counts = DictDel(@, k),
               !.lost = @ \cup ({k} \cap f.unsaved),
               !.unsaved = @ \ {k}]

\* _evict_page line 72: the page may be evicted
evictable_Always(pins, k) == TRUE

evictable(pins, k) == pins[k] = 0

\* BufferPoolManager._evict_page: whether a page was evicted, and the pool
evict_page_NewestFirst(st) ==
  LET cand == {i \in 1..Len(st.pages) : evictable(st.pin_counts, st.pages[i])} IN
  IF cand = {} THEN [ok |-> FALSE, st |-> st]
  ELSE [ok |-> TRUE, st |-> drop_page(st, st.pages[CHOOSE i \in cand : \A j \in cand : j <= i])]

evict_page(st) ==
  LET cand == {i \in 1..Len(st.pages) : evictable(st.pin_counts, st.pages[i])} IN
  IF cand = {} THEN [ok |-> FALSE, st |-> st]
  ELSE [ok |-> TRUE, st |-> drop_page(st, st.pages[Min(cand)])]

\* get_page lines 42-43: every pin count above 1 becomes 1
clamp_pins(st) ==
  [st EXCEPT !.pin_counts = [k \in DOMAIN @ |-> IF @[k] > 1 THEN 1 ELSE @[k]]]

\* get_page lines 38-44: up to three eviction attempts while the pool is full
RECURSIVE evict_loop(_, _)
evict_loop(st, attempts) ==
  IF Len(st.pages) >= pool_size /\ attempts < 3
  THEN LET r == evict_page(st) IN
       evict_loop(IF r.ok THEN r.st ELSE clamp_pins(st), attempts + 1)
  ELSE st

\* BufferPoolManager._force_evict_page
force_evict_page_Skips(st) == st

force_evict_page(st) ==
  IF Len(st.pages) = 0 THEN st ELSE drop_page(st, st.pages[1])

\* BufferPoolManager.get_page
get_page(st, k) ==
  IF k \in Resident(st.pages)
  THEN [st EXCEPT !.pages = Append(Without(@, k), k), !.pin_counts[k] = @ + 1]
  ELSE LET s1 == evict_loop(st, 0)
           s2 == IF Len(s1.pages) >= pool_size THEN force_evict_page(s1) ELSE s1
       IN [s2 EXCEPT !.pages = Append(@, k), !.pin_counts = DictPut(@, k, 1)]

\* BufferPoolManager.pin_page
pin_page(st, k) ==
  IF k \in DOMAIN st.pin_counts THEN [st EXCEPT !.pin_counts[k] = @ + 1] ELSE st

\* BufferPoolManager.unpin_page
unpin_page(st, k) ==
  IF k \in DOMAIN st.pin_counts /\ st.pin_counts[k] > 0
  THEN [st EXCEPT !.pin_counts[k] = @ - 1] ELSE st

\* BufferPoolManager.mark_dirty
mark_dirty(st, k) == [st EXCEPT !.dirty_pages = @ \cup {k}]

\* BufferPoolManager.flush_all: flush_page and remove, for every dirty id
flush_all(st) ==
  [st EXCEPT !.unsaved = @ \ (st.dirty_pages \cap Resident(st.pages)), !.dirty_pages = {}]

\* BufferPoolManager.clear
clear(st) ==
  LET f == flush_all(st) IN
  [f EXCEPT !.pages = << >>, !.pin_counts = EmptyDict, !.dirty_pages = {},
            !.lost = @ \cup f.unsaved, !.unsaved = {}]

\* Table.write lines 171-193 (and Table.update lines 290-315), for one page of
\* one column: the page is fetched under (self.path, page_num, col), written,
\* and then marked dirty and unpinned under (page.path, page.page_num), with
\* the col parameter left out
table_page_write(st, n, c) ==
  LET g == get_page(st, <<n, c>>)
      w == [g EXCEPT !.unsaved = @ \cup {<<n, c>>}]
  IN unpin_page(mark_dirty(w, <<n, None>>), <<n, None>>)

\* the pool after a call
SetPool(st) ==
  /\ pages' = st.pages
  /\ pin_counts' = st.pin_counts
  /\ dirty_pages' = st.dirty_pages
  /\ unsaved' = st.unsaved
  /\ lost' = st.lost

PoolCall(op, k) ==
  [op |-> op, key |-> k, pages |-> pages, pin_counts |-> pin_counts,
   dirty |-> k \in dirty_pages]

\* the call was a get_page of k, or made one: k is the page fetched last; the
\* pages that left the pool are forgotten
Fetched(k) ==
  recency' = SelectSeq(Append(Without(recency, k), k), LAMBDA x : x \in Resident(pages'))

\* the call made no get_page
NotFetched == recency' = SelectSeq(recency, LAMBDA x : x \in Resident(pages'))

\* the variables the buffer pool does not touch
nonpoolvars == <<lmvars, scn, tablevars, workervars, txnvars, histvars, storevars, unitvars>>

\* a pin count stays within MaxPins
CanPin(k) == k \in DOMAIN pin_counts => pin_counts[k] < MaxPins

\* a client calls get_page(path, page_num, col)
GetPage(k) ==
  /\ CanPin(k)
  /\ SetPool(get_page(Pool, k))
  /\ last_pool' = PoolCall("get_page", k)
  /\ Fetched(k)
  /\ UNCHANGED <<pool_size, nonpoolvars>>

\* a client calls pin_page
PinPage(k) ==
  /\ CanPin(k)
  /\ SetPool(pin_page(Pool, k))
  /\ last_pool' = NoPoolCall
  /\ NotFetched
  /\ UNCHANGED <<pool_size, nonpoolvars>>

\* a client calls unpin_page
UnpinPage(k) ==
  /\ SetPool(unpin_page(Pool, k))
  /\ last_pool' = NoPoolCall
  /\ NotFetched
  /\ UNCHANGED <<pool_size, nonpoolvars>>

\* a client calls mark_dirty
MarkDirty(k) ==
  /\ SetPool(mark_dirty(Pool, k))
  /\ last_pool' = NoPoolCall
  /\ NotFetched
  /\ UNCHANGED <<pool_size, nonpoolvars>>

\* a client calls flush_page
FlushPage(k) ==
  /\ SetPool(flush_page(Pool, k))
  /\ last_pool' = PoolCall("flush_page", k)
  /\ NotFetched
  /\ UNCHANGED <<pool_size, nonpoolvars>>

\* a client calls flush_all
FlushAll ==
  /\ SetPool(flush_all(Pool))
  /\ last_pool' = NoPoolCall
  /\ NotFetched
  /\ UNCHANGED <<pool_size, nonpoolvars>>

\* a client (Database.close) calls clear
Clear ==
  /\ SetPool(clear(Pool))
  /\ last_pool' = NoPoolCall
  /\ NotFetched
  /\ UNCHANGED <<pool_size, nonpoolvars>>

\* the table writes a value into page n of column c
TablePageWrite(n, c) ==
  /\ CanPin(<<n, c>>)
  /\ SetPool(table_page_write(Pool, n, c))
  /\ last_pool' = NoPoolCall
  /\ Fetched(<<n, c>>)
  /\ UNCHANGED <<pool_size, nonpoolvars>>

InitPool ==
  \E size \in 1..MaxPoolSize :
    TxnInit("ct1") /\ PoolInit(size) /\ StoreInit("ct1") /\ IndexInit("ct1") /\ PageInit
      /\ StepInit

NextPool ==
  \/ \E k \in PageIds : GetPage(k)
  \/ \E k \in PageIds : PinPage(k)
  \/ \E k \in PageIds : UnpinPage(k)
  \/ \E k \in PageIds : MarkDirty(k)
  \/ \E k \in PageIds : FlushPage(k)
  \/ FlushAll
  \/ Clear
  \/ \E n \in 1..NumPages, c \in PoolCols \ {None} : TablePageWrite(n, c)

SpecPool == InitPool /\ [][NextPool]_vars

\* ------------------------------------------------- one client of the table
\* keys of the rows: an ordinary one and the first tail record-id
StoreKeys == {1, TailRid}
Values == 1..NumValues
nonstorevars == <<lmvars, scn, tablevars, workervars, txnvars, histvars, poolvars, unitvars>>

\* the columns of a row after an update: the values given, else the old ones
Overlay(row, cols) == [i \in 1..Len(row) |-> IF cols[i] # None THEN cols[i] ELSE row[i]]

\* the updates the rows with the keys ks have received
RECURSIVE UpdatesOf(_)
UpdatesOf(ks) ==
  IF ks = {} THEN 0
  ELSE LET k == Min(ks) IN
       (IF row_log[k] = << >> THEN 0 ELSE Len(row_log[k]) - 1) + UpdatesOf(ks \ {k})

\* insert(k, v1, v2) of a key not inserted before
Insert(k, vals) ==
  LET columns == <<k>> \o vals
      r == QueryInsert(store, columns)
  IN /\ k \notin DOMAIN row_log
     /\ r.out
     /\ store' = r.t
     /\ alloc_log' = IF r.t # store THEN Append(alloc_log, k) ELSE alloc_log
     /\ row_log' = DictPut(row_log, k, << columns >>)
     /\ last_query' = NoQuery
     /\ UNCHANGED <<tail_of, merged, nonstorevars>>

\* an update query of a transaction on a row inserted before: Query.update,
\* then Transaction.run's make_ver_copy. An update that changes no column
\* writes no tail record and does not count as an update of the row
UpdateRow(k, vals) ==
  LET cols == <<None>> \o vals
      r == QueryUpdateIn(store, k, cols)
      row == row_log[k][Len(row_log[k])]
      new == Overlay(row, cols)
  IN /\ k \in DOMAIN row_log
     /\ row_log[k] # << >>
     /\ UpdatesOf(DOMAIN row_log) < MaxUpdates
     /\ r.out
     /\ new # row
     /\ store' = make_ver_copy(r.t)
     /\ alloc_log' = IF r.t.data # store.data THEN Append(alloc_log, TailRid) ELSE alloc_log
     /\ row_log' = [row_log EXCEPT ![k] = Append(@, new)]
     /\ tail_of' = IF r.t.data # store.data THEN DictPut(tail_of, TailRid, k) ELSE tail_of
     /\ last_query' = NoQuery
     /\ UNCHANGED <<merged, nonstorevars>>

\* select(k, key_col, [1] * num_columns)
SelectRow(k) ==
  /\ k \in DOMAIN row_log
  /\ last_query' = [op |-> "select", key |-> k, version |-> 0,
                    out |-> read_records_in(store, k)]
  /\ UNCHANGED <<store, alloc_log, row_log, tail_of, merged, nonstorevars>>

\* Query.select_version(k, key_col, [1] * num_columns, v)
SelectVersion(k, v) ==
  /\ k \in DOMAIN row_log
  /\ last_query' = [op |-> "select_version", key |-> k, version |-> v,
                    out |-> QuerySelectVersion(store, k, v)]
  /\ UNCHANGED <<store, alloc_log, row_log, tail_of, merged, nonstorevars>>

\* Table.select_version(v), then, when it returns True, a read of the row k
TableSelectVersion(v, k) ==
  LET r == select_version(store, v) IN
  /\ k \in DOMAIN row_log
  /\ store' = r.t
  /\ last_query' = [op |-> "table_select_version", key |-> k, version |-> v,
                    out |-> IF r.ok THEN read_records_in(r.t, k) ELSE << >>]
  /\ UNCHANGED <<alloc_log, row_log, tail_of, merged, nonstorevars>>

InitTable == InitOf("ct1")

NextTable ==
  \/ \E k \in StoreKeys, vals \in Values \X Values : Insert(k, vals)
  \/ \E k \in StoreKeys, vals \in (Values \cup {None}) \X (Values \cup {None}) : UpdateRow(k, vals)
  \/ \E k \in StoreKeys : SelectRow(k)
  \/ \E k \in StoreKeys, v \in (0 - MaxVersion)..MaxVersion : SelectVersion(k, v)
  \/ \E k \in StoreKeys, v \in (0 - MaxVersion)..MaxVersion : TableSelectVersion(v, k)

SpecTable == InitTable /\ [][NextTable]_vars

\* ------------- a client that also deletes rows and inserts a key again
\* the tables of SpecDelete: 3 user columns, and 5 (Table.delete reaches the
\* key column)
DeleteScenarios == {"ct1", "ab_delete"}
\* the values of the columns after the key: v in each
Rest(v) == [i \in 1..(num_columns - 1) |-> v]

\* delete(k) of a row inserted before and not yet deleted; row_log[k] is
\* emptied when the delete reports success
DeleteRow(k) ==
  LET r == QueryDeleteIn(store, k) IN
  /\ k \in DOMAIN row_log
  /\ row_log[k] # << >>
  /\ store' = r.t
  /\ row_log' = IF r.out THEN [row_log EXCEPT ![k] = << >>] ELSE row_log
  /\ last_query' = [op |-> "delete", key |-> k, version |-> 0, out |-> << >>]
  /\ UNCHANGED <<alloc_log, tail_of, merged, nonstorevars>>

\* select(v, c, [1] * num_columns) on the user column c, not the key
SelectBy(c, v) ==
  /\ last_query' = [op |-> "select_by", key |-> c, version |-> v,
                    out |-> read_records_by(store, c, v)]
  /\ UNCHANGED <<store, alloc_log, row_log, tail_of, merged, nonstorevars>>

\* insert of a row whose key was inserted before and not deleted; what
\* Query.insert returned, whether Transaction.run aborts on it, and the table
\* as it was before are kept
InsertAgain(k, vals) ==
  LET columns == <<k>> \o vals
      r == QueryInsert(store, columns)
  IN /\ k \in DOMAIN row_log
     /\ row_log[k] # << >>
     /\ store' = r.t
     /\ last_query' = [op |-> "insert_again", key |-> k, version |-> 0,
                       out |-> [ret |-> r.out, aborts |-> aborts(r.out), before |-> store]]
     /\ UNCHANGED <<alloc_log, row_log, tail_of, merged, nonstorevars>>

InitDelete == \E s \in DeleteScenarios : InitOf(s)

NextDelete ==
  \/ \E k \in StoreKeys, v \in Values : Insert(k, Rest(v))
  \/ \E k \in StoreKeys, v \in Values : UpdateRow(k, Rest(v))
  \/ \E k \in StoreKeys, v \in Values : InsertAgain(k, Rest(v))
  \/ \E k \in StoreKeys : DeleteRow(k)
  \/ \E k \in StoreKeys : SelectRow(k)
  \/ \E c \in 1..(num_columns - 1), v \in Values : SelectBy(c, v)

SpecDelete == InitDelete /\ [][NextDelete]_vars

\* --------------------------------- a client that also takes snapshots
\* Table.make_ver_copy called by the client, MaxCopies times at most
MakeVerCopy ==
  /\ store.clock < MaxCopies
  /\ store' = make_ver_copy(store)
  /\ last_query' = NoQuery
  /\ UNCHANGED <<alloc_log, row_log, tail_of, merged, nonstorevars>>

\* the client inserts, updates and deletes the row 1
NextVersions ==
  \/ Insert(1, <<1, 1>>)
  \/ \E v \in Values : UpdateRow(1, <<None, v>>)
  \/ DeleteRow(1)
  \/ MakeVerCopy

SpecVersions == InitTable /\ [][NextVersions]_vars

\* ---------------------------------------- a client that also runs merge
\* Table.merge; the rows as select returned them just before are kept
Merge ==
  /\ store' = merge(store)
  /\ merged' = TRUE
  /\ last_query' = [op |-> "merge", key |-> 0, version |-> 0,
                    out |-> [k \in DOMAIN row_log |-> read_records_in(store, k)]]
  /\ UNCHANGED <<alloc_log, row_log, tail_of, nonstorevars>>

NextMerge ==
  \/ \E k \in StoreKeys, vals \in Values \X Values : Insert(k, vals)
  \/ \E k \in StoreKeys, vals \in (Values \cup {None}) \X (Values \cup {None}) : UpdateRow(k, vals)
  \/ \E k \in StoreKeys : SelectRow(k)
  \/ Merge

SpecMerge == InitTable /\ [][NextMerge]_vars

\* ------------------------------------------ the indexes of a table's columns
nonindexvars == <<lmvars, scn, tablevars, workervars, txnvars, histvars, poolvars, storevars,
                  pagevars, stepvars>>

\* len(self.indices)
IndexLen(h) == Cardinality(DOMAIN h)

\* Index.create_index(column_number): the list is extended up to the column,
\* a column without an index is given one (with no record in the table the
\* tree restart_index_by_col fills is empty); True
create_index(h, column_number) ==
  LET ext == [c \in 0..(IF column_number >= IndexLen(h) THEN column_number ELSE IndexLen(h) - 1) |->
                IF c \in DOMAIN h THEN h[c] ELSE FALSE]
  IN [out |-> TRUE, indices |-> [ext EXCEPT ![column_number] = TRUE]]

\* Index.drop_index(column_number): indices[column_number] = None for a column
\* of the list, whichever column it is; True
drop_index(h, column_number) ==
  [out |-> TRUE,
   indices |-> IF column_number < IndexLen(h) THEN [h EXCEPT ![column_number] = FALSE] ELSE h]

\* the columns a client names: those of the table and the one past them
IndexCols == 0..total_columns

CreateIndex(c) ==
  LET r == create_index(has_index, c)
  IN /\ has_index' = r.indices
     /\ index_call' = [op |-> "create_index", col |-> c, out |-> r.out]
     /\ UNCHANGED nonindexvars

DropIndex(c) ==
  LET r == drop_index(has_index, c)
  IN /\ has_index' = r.indices
     /\ index_call' = [op |-> "drop_index", col |-> c, out |-> r.out]
     /\ UNCHANGED nonindexvars

NextIndex ==
  \/ \E c \in IndexCols : CreateIndex(c)
  \/ \E c \in IndexCols : DropIndex(c)

SpecIndex == InitTable /\ [][NextIndex]_vars

\* ------------------------- a client that creates indexes on a filled table
\* Table.read_page(page_num, index) without col: the first value that is not
\* None among the slots of the columns 0..num_columns-1 of the table's pages
RECURSIVE read_page_from(_, _, _)
read_page_from(t, i, index) ==
  IF i >= num_columns THEN None
  ELSE IF page_read(t, i, index) # None THEN page_read(t, i, index)
  ELSE read_page_from(t, i + 1, index)
read_page(t, index) == read_page_from(t, 0, index)

\* Index.restart_index_by_col(col), on the empty tree create_index made: every
\* record-id of the directory of col is given read_page(v[0], v[1])
restart_index_by_col(t, col) ==
  [t EXCEPT !.ix[col] = [k \in DOMAIN t.pd[col] |-> read_page(t, t.pd[col][k])]]

\* indices[c] is not None: the key column of Table.__init__, the columns
\* create_index was called on, and the user columns from the first
\* Table.write on (add_or_move_record_by_col creates the index)
Indexed(c) == has_index[c] \/ (c >= metadata_columns /\ store.data[c] # << >>)

\* Index.create_index(c) on a table with rows
CreateIndexOn(c) ==
  LET r == create_index(has_index, c)
  IN /\ store' = IF Indexed(c) THEN store ELSE restart_index_by_col(store, c)
     /\ has_index' = r.indices
     /\ index_call' = [op |-> "create_index", col |-> c, out |-> r.out]
     /\ UNCHANGED <<alloc_log, row_log, tail_of, last_query, merged>>
     /\ UNCHANGED <<lmvars, scn, tablevars, workervars, txnvars, histvars, poolvars, pagevars,
                    stepvars>>

\* the columns the client names: INDIRECTION, RID and the first user column
ReindexCols == {INDIRECTION_COLUMN, INDIRECTION_COLUMN + 1, metadata_columns}

NextReindex ==
  \/ \E k \in StoreKeys : Insert(k, <<1, 1>>)
  \/ \E k \in StoreKeys, v \in Values : UpdateRow(k, <<None, v>>)
  \/ \E c \in ReindexCols : CreateIndexOn(c)

SpecReindex == InitTable /\ [][NextReindex]_vars

\* ------------------------------------- the version walk of Table.read_value
nonstepvars == <<lmvars, scn, tablevars, workervars, txnvars, histvars, poolvars, storevars,
                 indexvars, pagevars>>

\* line 469: next_rid in visited_rids
seen_Never(next_rid, visited_rids) == FALSE
seen(next_rid, visited_rids) == next_rid \in visited_rids

\* lines 436-450: None without a directory entry; the walk is for a user
\* column out of history mode that has no index
walk_start(w) ==
  IF w.rid \notin w.col_dir THEN [w EXCEPT !.pc = "done"]
  ELSE IF w.follows
  THEN [w EXCEPT !.pc = "loop", !.current_rid = w.rid, !.visited_rids = {w.rid}]
  ELSE [w EXCEPT !.pc = "read", !.current_rid = w.rid]

\* one turn of the loop of lines 453-478
walk_loop(w) ==
  LET next_rid == w.indirection[w.current_rid] IN
  IF w.current_rid \notin w.ind_dir THEN [w EXCEPT !.pc = "read"]
  ELSE IF next_rid = 0 \/ seen(next_rid, w.visited_rids) THEN [w EXCEPT !.pc = "read"]
  ELSE IF next_rid \notin w.col_dir THEN [w EXCEPT !.pc = "read"]
  ELSE [w EXCEPT !.current_rid = next_rid, !.visited_rids = @ \cup {next_rid}]

\* lines 480-491: the value of the final page is read and returned
walk_read(w) == [w EXCEPT !.pc = "done"]

ReadValueStart ==
  /\ walk.pc = "start"
  /\ walk' = walk_start(walk)
  /\ UNCHANGED <<ins, nonstepvars>>

ReadValueLoop ==
  /\ walk.pc = "loop"
  /\ walk' = walk_loop(walk)
  /\ UNCHANGED <<ins, nonstepvars>>

ReadValueRead ==
  /\ walk.pc = "read"
  /\ walk' = walk_read(walk)
  /\ UNCHANGED <<ins, nonstepvars>>

\* every content of the directory of the column, of the directory of
\* INDIRECTION and of the INDIRECTION slots: 0, a record-id, or MaxChain + 1,
\* a record-id of no directory
WalkRids == 1..MaxChain
Walks ==
  [pc : {"start"}, col_dir : SUBSET WalkRids, ind_dir : SUBSET WalkRids,
   indirection : [WalkRids -> 0..(MaxChain + 1)], follows : BOOLEAN,
   rid : WalkRids, current_rid : {0}, visited_rids : {{}}]

InitWalk ==
  /\ TxnInit("ct1") /\ PoolInit(MaxPoolSize) /\ StoreInit("ct1") /\ IndexInit("ct1") /\ PageInit
  /\ walk \in Walks
  /\ ins = NoInsert

NextWalk == ReadValueStart \/ ReadValueLoop \/ ReadValueRead

\* the thread that called read_value keeps running
SpecWalk == InitWalk /\ [][NextWalk]_vars /\ WF_vars(NextWalk)

\* ----------------------------- two transactions inserting the same key
\* one turn of the loops of Table.write (lines 161-193 and 196-228): the
\* value of storage column c is appended to the page of the column, the
\* directory of the column is given the slot under rid, and the index of a
\* user column is given the value under rid
write_column(t, c, rid, val) ==
  [t EXCEPT !.data[c] = Append(@, val),
            !.pd[c] = DictPut(@, rid, Len(t.data[c])),
            !.ix[c] = IF c >= metadata_columns THEN DictPut(@, rid, val) ELSE @]

\* the key of the row the thread inserts
InsKey(w) == ins[w].columns[key_col + 1]

\* Transaction.run, lines 68-91, for an insert: the query is logged, and no
\* lock is asked for (insert is not among the operations of line 82)
InsertBegin(w) ==
  /\ ins[w].pc = "run"
  /\ ins' = [ins EXCEPT ![w].pc = "check"]
  /\ UNCHANGED <<walk, nonstepvars>>

\* Table.write, lines 149-151: return None when the directory of column
\* key_col has the record-id
WriteCheck(w) ==
  /\ ins[w].pc = "check"
  /\ ins' = [ins EXCEPT ![w].pc = IF InsKey(w) \in DOMAIN store.pd[key_col]
                                  THEN "done" ELSE "write"]
  /\ UNCHANGED <<walk, nonstepvars>>

\* Table.write, one turn of its loops
WriteColumn(w) ==
  LET c == ins[w].i
      all == <<0, InsKey(w), 0, 0>> \o ins[w].columns
  IN /\ ins[w].pc = "write"
     /\ store' = write_column(store, c, InsKey(w), all[c + 1])
     /\ ins' = [ins EXCEPT ![w].i = c + 1,
                           ![w].pc = IF c + 1 = total_columns THEN "done" ELSE "write"]
     /\ UNCHANGED <<alloc_log, row_log, tail_of, last_query, merged, walk>>
     /\ UNCHANGED <<lmvars, scn, tablevars, workervars, txnvars, histvars, poolvars,
                    indexvars, pagevars>>

\* each thread inserts a row with the key 1 and values of its choice
InitInsert ==
  /\ TxnInit("ct1") /\ PoolInit(MaxPoolSize) /\ StoreInit("ct1") /\ IndexInit("ct1") /\ PageInit
  /\ walk = NoWalk
  /\ \E v \in [Workers -> Values \X Values] :
       ins = [w \in Workers |-> [pc |-> "run", columns |-> <<1>> \o v[w], i |-> 0]]

NextInsert ==
  \/ \E w \in Workers : InsertBegin(w)
  \/ \E w \in Workers : WriteCheck(w)
  \/ \E w \in Workers : WriteColumn(w)

SpecInsert == InitInsert /\ [][NextInsert]_vars

\* ------------------------------------------------------------------ one page
nonpagevars == <<lmvars, scn, tablevars, workervars, txnvars, histvars, poolvars, storevars,
                 indexvars, stepvars>>

\* byte i (1 the most significant, 8 the least) of the 64-bit form of u >= 0;
\* the values written are below 2^31, so the four high bytes are 0
RECURSIVE Pow256(_)
Pow256(n) == IF n = 0 THEN 1 ELSE 256 * Pow256(n - 1)
ByteOf(u, i) == IF i <= 4 THEN 0 ELSE (u \div Pow256(8 - i)) % 256

\* value.to_bytes(8, byteorder='big', signed=True): two's complement, the
\* bytes of a negative value being the complemented bytes of -value - 1
to_bytes(value) ==
  IF value >= 0 THEN <<ByteOf(value, 1), ByteOf(value, 2), ByteOf(value, 3), ByteOf(value, 4),
                       ByteOf(value, 5), ByteOf(value, 6), ByteOf(value, 7), ByteOf(value, 8)>>
  ELSE LET u == 0 - value - 1 IN
       <<255 - ByteOf(u, 1), 255 - ByteOf(u, 2), 255 - ByteOf(u, 3), 255 - ByteOf(u, 4),
         255 - ByteOf(u, 5), 255 - ByteOf(u, 6), 255 - ByteOf(u, 7), 255 - ByteOf(u, 8)>>

\* the unsigned number the first n of the bytes b stand for
RECURSIVE Unsigned(_, _)
Unsigned(b, n) == IF n = 0 THEN 0 ELSE 256 * Unsigned(b, n - 1) + b[n]

\* int.from_bytes(value_bytes, byteorder='big', signed=True)
from_bytes(b) ==
  IF b[1] < 128 THEN Unsigned(b, 8)
  ELSE 0 - Unsigned([i \in 1..8 |-> 255 - b[i]], 8) - 1

\* Page.has_capacity
has_capacity_Through(p) == p.num_records <= RECORDS_PER_PAGE
has_capacity(p) == p.num_records < RECORDS_PER_PAGE

\* self.data[offset:offset+8] = value_bytes: the eight bytes replace those at
\* the offset, which is where the bytes written so far end (byte offset o of
\* the bytearray is d[o + 1])
SetSlice(d, offset, value_bytes) == SubSeq(d, 1, offset) \o value_bytes

\* Page.write(value): False when the page has no capacity, else the value is
\* stored at offset num_records * 8, num_records grows by one; True
page_write(p, value) ==
  IF ~has_capacity(p) THEN [out |-> FALSE, p |-> p]
  ELSE LET offset == p.num_records * 8 IN
       [out |-> TRUE,
        p |-> [num_records |-> p.num_records + 1,
               data |-> SetSlice(p.data, offset, to_bytes(value))]]

\* Page.read(index): None at or past num_records, else the value of the eight
\* bytes at offset index * 8
page_read_value(p, index) ==
  IF index >= p.num_records THEN None
  ELSE LET offset == index * 8 IN from_bytes(SubSeq(p.data, offset + 1, offset + 8))

\* the page as an object
ThePage == [num_records |-> num_records, data |-> data]

\* the values a client writes: any of SlotValues into the first slot and when
\* the page has room for one value or for none, and 10 * i into slot i in
\* between (src/page_test.py writes i * 10)
SlotValues == {0 - 258, 0 - 1, 0, 1, 258}
ValuesFor(n) == IF n = 0 \/ n >= RECORDS_PER_PAGE - 1 THEN SlotValues ELSE {10 * n}

Write(value) ==
  LET r == page_write(ThePage, value)
  IN /\ num_records' = r.p.num_records
     /\ data' = r.p.data
     /\ page_log' = IF r.out THEN Append(page_log, value) ELSE page_log
     /\ page_call' = [op |-> "write", value |-> value, out |-> r.out,
                      num_records |-> num_records]
     /\ UNCHANGED nonpagevars

NextPage == \E value \in ValuesFor(num_records) : Write(value)

SpecPage == InitTable /\ [][NextPage]_vars

\* ------------------------------------------------------------------ claims
\* C1: for every key (table, rid), a transaction that holds the key in
\* exclusive mode is the only holder of the key.
C1_ExclusiveHolderIsSole ==
  \A key \in LockKeys : \A t \in Holders(lock_dict, key) :
    lock_dict[key][t] = EXCLUSIVE => Holders(lock_dict, key) = {t}

\* an exclusive holder has just seen another transaction's request refused
C1_Witness ==
  /\ last_call.op = "acquire" /\ last_call.ret = FALSE
  /\ \E t \in TxnIds \ {last_call.tid} : Holds(lock_dict, last_call.key, t, EXCLUSIVE)

\* C2: acquire_lock never waits (every call can be taken, and returns, in any
\* state), and a call that returned false left the holders and modes of every
\* key exactly as they were before the call.
C2_RefusalIsImmediateAndChangesNothing ==
  /\ \A key \in LockKeys, tid \in TxnIds, lt \in LockTypes : ENABLED AcquireLock(key, tid, lt)
  /\ (last_call.op = "acquire" /\ last_call.ret = FALSE) => lock_dict = last_call.before

\* a request was refused while another transaction held the key
C2_Witness ==
  /\ last_call.op = "acquire" /\ last_call.ret = FALSE
  /\ Holders(lock_dict, last_call.key) \ {last_call.tid} # {}
  /\ last_call.tid \in Holders(lock_dict, last_call.key)

\* C3: a holder of the shared lock that requests the exclusive lock is granted
\* it exactly when it is the only holder; granted, its mode is exclusive;
\* refused, it still holds the shared lock.
C3_UpgradeIffSoleHolder ==
  (/\ last_call.op = "acquire" /\ last_call.mode = EXCLUSIVE
   /\ Holds(last_call.before, last_call.key, last_call.tid, SHARED))
  => /\ last_call.ret = (Holders(last_call.before, last_call.key) = {last_call.tid})
     /\ last_call.ret => Holds(lock_dict, last_call.key, last_call.tid, EXCLUSIVE)
     /\ ~ last_call.ret => Holds(lock_dict, last_call.key, last_call.tid, SHARED)

\* an upgrade was refused because another transaction shares the key
C3_Witness ==
  /\ last_call.op = "acquire" /\ last_call.mode = EXCLUSIVE /\ last_call.ret = FALSE
  /\ Holds(last_call.before, last_call.key, last_call.tid, SHARED)
  /\ Holds(lock_dict, last_call.key, last_call.tid, SHARED)
  /\ Cardinality(Holders(lock_dict, last_call.key)) > 1

\* an upgrade was granted to a sole shared holder
C3_WitnessGranted ==
  /\ last_call.op = "acquire" /\ last_call.mode = EXCLUSIVE /\ last_call.ret = TRUE
  /\ Holds(last_call.before, last_call.key, last_call.tid, SHARED)

\* the keys on which the running transaction of worker w holds a lock in ld
HeldBy(ld, w) == {key \in LockKeys : CurTid(w) \in Holders(ld, key)}

\* C4: strict two-phase locking. A step takes a lock away from a transaction
\* only when the step is the release inside commit or inside abort (never
\* while run is executing its queries), and when commit or abort has finished
\* the transaction holds no lock on any key.
C4_StrictTwoPhaseLocking ==
  [][\A w \in Workers :
       /\ HeldBy(lock_dict, w) \ HeldBy(lock_dict', w) # {} => pc[w] \in {"commit", "release"}
       /\ (pc[w] \in {"commit", "release"} /\ pc'[w] = "returned")
            => HeldBy(lock_dict', w) = {}]_vars

\* a transaction that held the locks of two rows has committed
C4_Witness ==
  \E w \in Workers :
    /\ pc[w] = "returned" /\ ret[w] /\ executed[w] >= 2
    /\ HeldBy(lock_dict, w) = {}

\* a transaction that held a lock and changed a row has aborted
C4_WitnessAbort ==
  \E w \in Workers :
    /\ pc[w] = "returned" /\ ~ ret[w] /\ executed[w] >= 1
    /\ HeldBy(lock_dict, w) = {}

\* C5: a transaction of updates and deletes that aborts after having executed
\* some of them leaves every row, as select returns it, as it was immediately
\* before the transaction's first query (stated for the workloads in which
\* worker 1 runs the only transaction that writes).
C5_AbortRestoresRows ==
  (/\ scn \in AbortScenarios
   /\ pc[1] = "returned" /\ ~ ret[1] /\ executed[1] >= 1)
  => Rows(page_directory, indices) = snap[1]

\* C5, as far as the code keeps it: the rollback of one update that was given
\* its key column, and of a delete, restores the rows
C5_AbortRestoresKeyedUpdateAndDelete ==
  (/\ scn \in {"ab_key", "ab_delete"}
   /\ pc[1] = "returned" /\ ~ ret[1] /\ executed[1] >= 1)
  => Rows(page_directory, indices) = snap[1]

\* C6: a select or sum never returns a value that the update of another
\* transaction wrote and that transaction has not committed: every cell read
\* holds its committed value, or the reader's own transaction wrote the row.
C6_NoUncommittedRead ==
  \A w \in Workers : \A c \in last_read[w] : c.val = c.com \/ c.own

\* the non-key columns of row k
NonKey(k) ==
  LET row == Rows(page_directory, indices)[k] IN
  {row[i] : i \in (1..num_columns) \ {key_col + 1}}

C8_AllRowsOneTransaction ==
  (scn \in {"ct2", "ct2r"} /\ AllDone)
  => \E v \in {0} \cup {ValueOf(w) : w \in Workers} : \A k \in Rids : NonKey(k) = {v}

\* C8 for the order of correctness_tester2, every transaction updating the
\* rows in the same order
C8_AllRowsOneTransactionSameOrder ==
  (scn = "ct2" /\ AllDone)
  => \E v \in {0} \cup {ValueOf(w) : w \in Workers} : \A k \in Rids : NonKey(k) = {v}

\* the value transaction w of the deadlock tester writes into row k, and the
\* final value of row k
DlFinal(k) == Rows(page_directory, indices)[k][2]

\* C9: tx1 = [update row 1, select row 1 ..., update row 2] and
\* tx2 = [update row 2, select row 2 ..., update row 1]: once both workers
\* have finished, rows 1 and 2 both hold the values tx1 wrote or both hold the
\* values tx2 wrote.
C9_FinalStateIsOneLinearisation ==
  (scn = "dl" /\ AllDone)
  => \E w \in Workers : \A k \in Rids : DlFinal(k) = DlValue(k, w)

\* C10: every worker eventually finishes its list of transactions.
C10_EveryWorkerFinishes == <> AllDone

\* two transactions that lock the same two rows in opposite order have both
\* been refused a lock and have given up after max_retries runs
C10_Witness ==
  /\ scn = "dl" /\ AllDone
  /\ \A w \in Workers : result[w] = 0 /\ stats[w] = << FALSE >>

\* C11: a transaction that runs while no other transaction holds any lock
\* (no other worker has started), and whose queries each succeed at the table
\* level, is never refused a lock and commits on its first run.
C11_LoneTransactionCommits ==
  \A w \in Workers :
    (\A v \in Workers \ {w} : pc[v] = "start")
    => /\ pc[w] \notin {"abort", "release"}
       /\ pc[w] = "returned" => ret[w]
       /\ retries[w] = 0

\* the runs of transaction i in the log of worker w, as positions of the log
RunsOf(w, i) == {j \in 1..Len(run_log[w]) : run_log[w][j].txn = i}
\* what the last run of transaction i returned
LastRun(w, i) == run_log[w][CHOOSE j \in RunsOf(w, i) : \A l \in RunsOf(w, i) : l <= j].ret

\* C12: a worker runs each of its transactions at least once and at most 3
\* times, never re-runs a transaction after a run returned true, takes the
\* transactions in list order, and when it has finished its result is the
\* number of its transactions whose last run returned true.
C12_WorkerRunsAndCounts ==
  \A w \in Workers :
    LET log == run_log[w] IN
    /\ \A j \in 1..Len(log) :
         /\ log[j].txn \in 1..Len(Prog(scn, w))
         /\ j > 1 => log[j].txn \in {log[j - 1].txn, log[j - 1].txn + 1}
         /\ (j > 1 /\ log[j - 1].ret) => log[j].txn = log[j - 1].txn + 1
         /\ j = 1 => log[j].txn = 1
    /\ \A i \in 1..Len(Prog(scn, w)) : Cardinality(RunsOf(w, i)) <= 3
    /\ pc[w] = "done" =>
         /\ \A i \in 1..Len(Prog(scn, w)) : Cardinality(RunsOf(w, i)) >= 1
         /\ result[w] = Cardinality({i \in 1..Len(Prog(scn, w)) : LastRun(w, i)})

\* a worker has finished two transactions: one given up after 3 runs that
\* returned false, one that returned true
C12_Witness ==
  \E w \in Workers :
    /\ pc[w] = "done" /\ result[w] = 1 /\ Len(Prog(scn, w)) = 2
    /\ \E i \in 1..2 : Cardinality(RunsOf(w, i)) = 3 /\ ~ LastRun(w, i)

\* C13: the number of resident pages is at most the capacity of the pool.
C13_ResidentWithinCapacity == Len(pages) <= pool_size

\* a miss on a full pool whose pages were all pinned
C13_Witness ==
  /\ last_pool.op = "get_page" /\ last_pool.key \notin Resident(last_pool.pages)
  /\ Len(last_pool.pages) = pool_size /\ Len(pages) = pool_size
  /\ \A k \in Resident(last_pool.pages) : last_pool.pin_counts[k] > 0

\* the pages the last get_page removed from the pool
Evicted == Resident(last_pool.pages) \ Resident(pages)

\* C14: get_page removes a pinned page only when, at the time of the miss,
\* every resident page was pinned; when some resident page was unpinned, the
\* pages removed were unpinned.
C14_PinnedEvictedOnlyWhenAllPinned ==
  last_pool.op = "get_page" =>
    \A k \in Evicted :
      last_pool.pin_counts[k] > 0 =>
        \A j \in Resident(last_pool.pages) : last_pool.pin_counts[j] > 0

\* a miss on a full pool that held a pinned page, least recently used, and an
\* unpinned one: the unpinned one was evicted
C14_Witness ==
  /\ last_pool.op = "get_page" /\ Len(last_pool.pages) = 2 /\ pool_size = 2
  /\ last_pool.pin_counts[last_pool.pages[1]] > 0
  /\ Evicted = {last_pool.pages[2]}

\* C15: no page modified since it was last written to disk has left the pool
\* without being written first.
C15_NoUnwrittenPageLeaves == lost = {}

\* C16: after flush_page(k) of a resident key k that was in the dirty set,
\* k is not in the dirty set.
C16_FlushRemovesFromDirtySet ==
  (/\ last_pool.op = "flush_page"
   /\ last_pool.key \in Resident(last_pool.pages)
   /\ last_pool.dirty)
  => last_pool.key \notin dirty_pages

\* C17: every record-id given out by an insert or an update differs from
\* every record-id given out before it in the same table: no two updates get
\* the same tail record-id, and no tail record-id is that of a base record
C17_RecordIdsNeverReused ==
  \A i, j \in DOMAIN alloc_log : i # j => alloc_log[i] # alloc_log[j]

\* the tail record-ids read by following INDIRECTION from the record rid
\* until 0 is read (or a record is missing), at most fuel of them
RECURSIVE Chain(_, _, _)
Chain(t, rid, fuel) ==
  LET next == IF rid \in DOMAIN t.pd[INDIRECTION_COLUMN]
              THEN page_read(t, INDIRECTION_COLUMN, t.pd[INDIRECTION_COLUMN][rid])
              ELSE None
  IN IF fuel = 0 \/ next = 0 \/ next = None THEN << >>
     ELSE <<next>> \o Chain(t, next, fuel - 1)

\* C18: after inserts and updates (no merge, no version switch), for every
\* row the tail records reached from its base record along INDIRECTION until
\* 0 is read are as many as the updates of the row, no record-id is among
\* them twice, and each is a tail record of this row
C18_ChainLengthIsUpdateCount ==
  ~ store.is_history =>
    \A k \in DOMAIN row_log :
      LET chain == Chain(store, k, MaxUpdates + 1) IN
      /\ Len(chain) = Len(row_log[k]) - 1
      /\ \A i, j \in DOMAIN chain : i # j => chain[i] # chain[j]
      /\ \A i \in DOMAIN chain : chain[i] \in DOMAIN tail_of /\ tail_of[chain[i]] = k

\* C19: after inserts and updates (no delete, no merge, no version switch),
\* select of key k with a full projection returns for every column the value
\* of the last update of row k that gave the column a value, else the value
\* inserted; updates of other rows do not change it
C19_SelectReturnsLatestValues ==
  (last_query.op = "select" /\ ~ store.is_history) =>
    last_query.out = << row_log[last_query.key][Len(row_log[last_query.key])] >>

\* the row k as it was j versions ago: after its (n - j)-th update, n the
\* updates it has received; the row as inserted for j > n
VersionRow(k, j) ==
  LET n == Len(row_log[k]) - 1 IN
  row_log[k][IF j > n THEN 1 ELSE n - j + 1]

\* C20: select_version with relative version -j returns the row as it was
\* after its (n - j)-th update for 0 <= j <= n and the inserted record for
\* j > n; with version 0 it returns what select returns
C20_SelectVersionReturnsOlderRow ==
  (last_query.op \in {"select_version", "table_select_version"} /\ last_query.version <= 0) =>
    last_query.out = << VersionRow(last_query.key, 0 - last_query.version) >>

\* the keys whose delete reported success
Deleted == {k \in DOMAIN row_log : row_log[k] = << >>}

\* C21: after delete of a key, whatever the number of user columns, the
\* record has no entry in the page directory of any column, and select of the
\* key, by primary key or through the index of any column, returns no record
C21_DeletedRowIsGone ==
  \A k \in Deleted :
    /\ \A c \in DOMAIN store.pd : k \notin DOMAIN store.pd[c]
    /\ read_records_in(store, k) = << >>
    /\ \A c \in 1..(num_columns - 1), v \in Values :
         \A i \in DOMAIN read_records_by(store, c, v) :
           read_records_by(store, c, v)[i][key_col + 1] # k

\* C22: every record-id in the index of a column has an entry in the page
\* directory of that column, and after delete of a record-id no index maps it
C22_IndexWithinDirectory ==
  /\ \A c \in DOMAIN store.ix : DOMAIN store.ix[c] \subseteq DOMAIN store.pd[c]
  /\ \A k \in Deleted : \A c \in DOMAIN store.ix : k \notin DOMAIN store.ix[c]

\* the slot of metadata column c of the base record of row k
BaseSlot(c, k) == page_read(store, c, store.pd[c][k])

\* C23: after merge, the base record of every row has SCHEMA = 0 and
\* INDIRECTION = 0, every directory entry names a page the table still owns,
\* select of every key returns what it returned just before the merge, and
\* what is inserted or updated after the merge is read back
C23_MergeResetsAndKeepsRows ==
  /\ last_query.op = "merge" =>
       /\ \A k \in DOMAIN row_log :
            /\ BaseSlot(SCHEMA_ENCODING_COLUMN, k) = 0
            /\ BaseSlot(INDIRECTION_COLUMN, k) = 0
            /\ read_records_in(store, k) = last_query.out[k]
       /\ \A c \in DOMAIN store.pd : \A rid \in DOMAIN store.pd[c] :
            page_num(store.pd[c][rid]) <= base_pages
  /\ (merged /\ last_query.op = "select") =>
       last_query.out = << row_log[last_query.key][Len(row_log[last_query.key])] >>

\* the user columns (positions) some update of row k changed
ChangedColumns(k) ==
  {i \in 1..num_columns :
     \E n \in 1..(Len(row_log[k]) - 1) : row_log[k][n][i] # row_log[k][n + 1][i]}

\* C24: after inserts and updates (no merge, no version switch), bit i of
\* the SCHEMA slot of the base record of a row is set if and only if some
\* update of the row changed user column i
C24_SchemaBitsAreChangedColumns ==
  ~ store.is_history =>
    \A k \in DOMAIN row_log :
      BaseSlot(SCHEMA_ENCODING_COLUMN, k) = schema_encoding(ChangedColumns(k))

\* C25: an insert of a row whose primary key is in the table reports failure
\* to its caller, so that the transaction around it aborts, and leaves the
\* page directory, the pages and every index as they were
C25_DuplicateInsertFails ==
  last_query.op = "insert_again" =>
    /\ last_query.out.ret = FALSE
    /\ last_query.out.aborts
    /\ store = last_query.out.before

\* C26: after any sequence of create_index and drop_index on any columns the
\* primary-key column has an index: a drop_index on the primary-key column (the
\* column the table created its index on, or the key among the stored
\* columns) is refused and leaves the index in place
C26_PrimaryKeyKeepsIndex ==
  /\ has_index[key_col]
  /\ (index_call.op = "drop_index" /\ index_call.col \in {key_col, key_col + metadata_columns}) =>
       (index_call.out = FALSE /\ has_index[index_call.col])

\* a page holds n values: a write is accepted exactly when fewer than n are
\* stored; an accepted write is read back from its slot; after a rejected
\* write the slot count is as before and every slot reads back the value
\* written into it
PageHolds(n) ==
  /\ page_call.op = "write" => (page_call.out <=> page_call.num_records < n)
  /\ (page_call.op = "write" /\ page_call.out) =>
       /\ num_records = page_call.num_records + 1
       /\ page_read_value(ThePage, num_records - 1) = page_call.value
  /\ (page_call.op = "write" /\ ~page_call.out) =>
       /\ num_records = page_call.num_records
       /\ num_records = Len(page_log)
       /\ \A i \in 0..(num_records - 1) : page_read_value(ThePage, i) = page_log[i + 1]

InQuery(w) ==
  \/ pc[w] \in {"save", "exec"}
  \/ pc[w] = "index" /\ pending[w] # << >> /\ pending[w].from = "run"

\* the queries of the current run of worker w that have run or are running
Begun(w) == executed[w] + (IF InQuery(w) THEN 1 ELSE 0)

\* C28: for every query a transaction executes, a log record naming the
\* transaction and the operation is in the log before the query first changes
\* the table: the record of a query is there while it is about to run, while
\* it runs and after it
C28_LoggedBeforeExecuted ==
  \A w \in Workers :
    /\ Len(transaction_log[w]) >= Begun(w)
    /\ \A j \in 1..Begun(w) :
         /\ transaction_log[w][j].transaction_id = CurTid(w)
         /\ transaction_log[w][j].operation = Txn(w)[j].op
         /\ transaction_log[w][j].key = Txn(w)[j].key

\* an update has changed the table and its transaction is about to run its
\* next query, both logged
C28_Witness ==
  \E w \in Workers :
    /\ pc[w] = "exec"
    /\ executed[w] >= 1
    /\ modified_records[w] # << >>
    /\ Len(transaction_log[w]) = executed[w] + 1

\* the query of worker w is refused its lock in this step: Transaction.run is
\* at the head of the loop and acquire_lock returns False
LockRefused(w) ==
  /\ pc[w] = "query"
  /\ pc'[w] # "query"
  /\ LET q == CurQ(w)
         lock_type == IF q.op \in {"select", "sum"} THEN SHARED ELSE EXCLUSIVE
     IN ~ acquire_lock(lock_dict, LockKey(q.key), CurTid(w), lock_type).ret

\* the locks a running query needs are held
QueryHoldsLock(w) ==
  InQuery(w) =>
    LET q == CurQ(w) IN
    /\ q.op \in {"update", "delete"} => Holds(lock_dict, LockKey(q.key), CurTid(w), EXCLUSIVE)
    /\ q.op = "select" => CurTid(w) \in Holders(lock_dict, LockKey(q.key))

\* C29: whenever a transaction executes an update or a delete on key k it
\* holds the exclusive lock on (table, k), and whenever it executes a select on
\* k it holds a lock on (table, k); when acquire_lock returns false the query is
\* not executed (the table and the count of executed queries stay as they are)
\* and the transaction aborts
C29_QueriesRunUnderLock ==
  /\ [](\A w \in Workers : QueryHoldsLock(w))
  /\ [][\A w \in Workers :
          LockRefused(w) =>
            /\ pc'[w] = "abort"
            /\ executed'[w] = executed[w]
            /\ UNCHANGED tablevars]_vars

\* one transaction runs an update or a delete under its exclusive lock while
\* another, refused the lock its query needs, is aborting
C29_Witness ==
  \E w, v \in Workers :
    /\ w # v
    /\ pc[w] = "exec"
    /\ CurQ(w).op \in {"update", "delete"}
    /\ Holds(lock_dict, LockKey(CurQ(w).key), CurTid(w), EXCLUSIVE)
    /\ pc[v] = "abort"
    /\ LockKey(CurQ(v).key) \notin acquired_locks[v]

\* the transaction of worker w holds nothing: no lock in the lock manager, no
\* acquired lock, no modified record, no before-image
HoldsNothing(w, ld) ==
  /\ \A key \in DOMAIN ld : CurTid(w) \notin DOMAIN ld[key]
  /\ acquired_locks[w] = {}
  /\ modified_records[w] = << >>
  /\ original_values[w] = EmptyDict

IsGetPage(k) ==
  /\ last_pool'.op = "get_page" /\ last_pool'.key = k
  /\ last_pool'.pages = pages /\ last_pool'.pin_counts = pin_counts
  /\ pages' # pages \/ pin_counts' # pin_counts

\* the resident pages nobody has pinned
Unpinned == {j \in Resident(pages) : pin_counts[j] = 0}

\* the unpinned page whose last get_page is the oldest
OldestUnpinned ==
  recency[Min({i \in 1..Len(recency) : recency[i] \in Unpinned})]

PageOf(c, rid) == page_num(store.pd[c][rid])

\* some base page of column c has room: the slots written fill fewer than
\* base_pages pages
BasePageHasCapacity(c) == Len(store.data[c]) < base_pages * RECORDS_PER_PAGE

\* C32: after any sequence of inserts and updates the page directory places
\* every record written by update (a tail record) on a page numbered 17 or
\* higher, and no record written by insert on a page numbered above 16 while
\* some base page 1..16 of the column has capacity
C32_TailRecordsOnTailPages ==
  \A c \in DOMAIN store.pd : \A rid \in DOMAIN store.pd[c] :
    IF rid \in DOMAIN tail_of
    THEN PageOf(c, rid) >= base_pages + 1
    ELSE BasePageHasCapacity(c) => PageOf(c, rid) <= base_pages

\* the step is a Table.update of the row with key k that wrote a tail record
IsUpdateOf(k) ==
  /\ k \in DOMAIN row_log /\ k \in DOMAIN row_log'
  /\ Len(row_log'[k]) > Len(row_log[k])
  /\ store'.data # store.data

\* C33: Table.update of one row changes no existing slot other than the
\* INDIRECTION and SCHEMA slots of the row's base record: every other slot
\* written before the update holds the same value after it, and the
\* page-directory entry of every record-id that existed before the update is
\* the same before and after
C33_UpdateOnlyAppends ==
  [][\A k \in StoreKeys :
       IsUpdateOf(k) =>
         /\ \A c \in DOMAIN store.data : \A i \in 1..Len(store.data[c]) :
              \/ store'.data[c][i] = store.data[c][i]
              \/ /\ c \in {INDIRECTION_COLUMN, SCHEMA_ENCODING_COLUMN}
                 /\ k \in DOMAIN store.pd[c]
                 /\ i = store.pd[c][k] + 1
         /\ \A c \in DOMAIN store.pd : \A rid \in DOMAIN store.pd[c] :
              /\ rid \in DOMAIN store'.pd[c]
              /\ store'.pd[c][rid] = store.pd[c][rid]]_vars

\* C34: the table keeps at most max_versions snapshots and one timestamp for
\* each; the snapshots kept are the last ones made; a snapshot is the
\* directory as it was when it was made, and no later insert, update or
\* delete changes a snapshot that is kept
C34_SnapshotsKept ==
  /\ [](LET n == Len(store.versions) IN
        /\ n <= max_versions
        /\ Len(store.version_timestamps) = n
        /\ \A i \in 1..n : store.version_timestamps[i] = store.clock - n + i)
  /\ [][/\ \A i \in 1..Len(store.versions), j \in 1..Len(store'.versions) :
             store.version_timestamps[i] = store'.version_timestamps[j]
               => store'.versions[j] = store.versions[i]
        /\ store'.clock # store.clock
             => store'.versions[Len(store'.versions)] = store'.pd]_vars
C34_Witness ==
  /\ store.clock > max_versions
  /\ Len(store.versions) = max_versions
  /\ \E i \in 1..Len(store.versions) : store.versions[i] # store.pd
  /\ store.versions[Len(store.versions)] # store.pd

\* C35: create_index(c) on a column without an index gives every record-id
\* of the directory of column c the value of column c's page at the
\* record-id's directory entry
C35_IndexHoldsOwnColumn ==
  [][\A c \in DOMAIN has_index :
       (~ Indexed(c) /\ has_index'[c]) =>
         \A rid \in DOMAIN store'.pd[c] :
           /\ rid \in DOMAIN store'.ix[c]
           /\ store'.ix[c][rid] = page_read(store', c, store'.pd[c][rid])]_vars

\* C36: Table.read_value returns, whatever the page directory and the
\* INDIRECTION column hold: a chain that loops and a chain that leads to a
\* record-id of no directory included
C36_ReadValueTerminates == <>(walk.pc = "done")
C36_Witness ==
  /\ walk.pc = "done"
  /\ walk.visited_rids = WalkRids
  /\ walk.indirection[walk.current_rid] \in walk.visited_rids

\* the step is a page write of the table: Table.write or Table.update
\* putting a value into page n of column c
IsTablePageWrite(n, c) ==
  LET st == table_page_write(Pool, n, c) IN
  /\ CanPin(<<n, c>>)
  /\ pages' = st.pages
  /\ pin_counts' = st.pin_counts
  /\ dirty_pages' = st.dirty_pages
  /\ unsaved' = st.unsaved
  /\ lost' = st.lost
  /\ last_pool' = NoPoolCall
\* the pin count of a page, 0 for a page that is not in the pool
PinOf(pc_, k) == IF k \in DOMAIN pc_ THEN pc_[k] ELSE 0

\* C37: a page write of the table leaves the pin count of every page of the
\* buffer pool as it was: its get_page is matched by its unpin_page
C37_TableLeavesPinCounts ==
  [][\A n \in 1..NumPages, c \in PoolCols \ {None} :
       IsTablePageWrite(n, c) =>
         \A k \in PageIds : PinOf(pin_counts', k) = PinOf(pin_counts, k)]_vars

\* C38: Table.select_version changes neither the page directory nor the
\* history mode of the table, and select returns for every row what it
\* returned before the call
C38_SelectVersionIsARead ==
  [][last_query'.op = "table_select_version" =>
       /\ store'.pd = store.pd
       /\ store'.is_history = store.is_history
       /\ \A k \in DOMAIN row_log : read_records_in(store', k) = read_records_in(store, k)]_vars

\* the call read_value(col, rid) on the table t that follows the chain (a
\* user column, no history mode, no index asked): what it reads of t
WalkOf(t, col, rid) ==
  [pc |-> "start", col_dir |-> DOMAIN t.pd[col], ind_dir |-> DOMAIN t.pd[INDIRECTION_COLUMN],
   indirection |-> [r \in DOMAIN t.pd[INDIRECTION_COLUMN] |->
                      page_read(t, INDIRECTION_COLUMN, t.pd[INDIRECTION_COLUMN][r])],
   follows |-> TRUE, rid |-> rid, current_rid |-> 0, visited_rids |-> {}]
\* the walk up to the read of the final page
RECURSIVE walk_end(_)
walk_end(w) ==
  IF w.pc = "start" THEN walk_end(walk_start(w))
  ELSE IF w.pc = "loop" THEN walk_end(walk_loop(w))
  ELSE w
\* the value of the column at the newest version the chain of rid leads to
newest(t, col, rid) ==
  LET w == walk_end(WalkOf(t, col, rid)) IN
  IF w.pc = "done" THEN None ELSE page_read(t, col, t.pd[col][w.current_rid])

\* C39: out of history mode, the index of every user column holds for every
\* base record the value the pages hold at the end of its INDIRECTION chain
C39_IndexMatchesChain ==
  ~ store.is_history =>
    \A r \in DOMAIN row_log : \A c \in DOMAIN store.ix :
      (c >= metadata_columns /\ row_log[r] # << >>) =>
        /\ r \in DOMAIN store.ix[c]
        /\ store.ix[c][r] = newest(store, c, r)

\* C40: when two transactions have inserted a row with the same primary
\* key, the table holds one base record for the key, and the columns the
\* directory names for it are those of one of the two inserts
C40_OneInsertTakesEffect ==
  (\A w \in Workers : ins[w].pc = "done") =>
    /\ \A c \in DOMAIN store.data : Len(store.data[c]) = 1
    /\ \E w \in Workers : \A i \in 1..num_columns :
         LET c == metadata_columns + i - 1 IN
         page_read(store, c, store.pd[c][InsKey(w)]) = ins[w].columns[i]
====
